---- MODULE Spec2Model ----
(***************************************************************************)
(* AICA ADPCM <-> WAV converter (wav2adpcm) of KallistiOS.                 *)
(*                                                                         *)
(* The module holds several specifications over one set of variables:      *)
(*   SpecCodec   pcm2adpcm and adpcm2pcm, one loop iteration per step      *)
(*   SpecStereo  deinterleave and interleave                               *)
(*   Spec        wav2adpcm (PCM WAV -> ADPCM WAV), one step per chunk      *)
(*   SpecDecode  adpcm2wav (ADPCM WAV -> PCM WAV)                          *)
(*   SpecRoundTrip  wav2adpcm, then adpcm2wav on the file it wrote         *)
(*   SpecSfx     the channel allocator and snd_sfx_play of snd_sfxmgr.c    *)
(*   SpecRegistry  the effect list of snd_sfxmgr.c: the loaders, unload    *)
(*               and unload_all                                            *)
(*   SpecEffects the same with snd_sfx_play_chn and the update calls       *)
(* A specification leaves the variables of the others at their idle value. *)
(*                                                                         *)
(* Buffers of 16-bit samples are sequences of integers in -32768..32767,   *)
(* byte buffers are sequences of integers in 0..255.  Sequences are        *)
(* 1-based: C's buf[i] is buf[i+1] here.                                   *)
(***************************************************************************)
EXTENDS Integers, Sequences, FiniteSets, TLC

VARIABLES
    \* One run of the codec primitives (SpecCodec).
    c_pc,        \* "pcm2adpcm", "encode", "adpcm2pcm", "decode", "done", "idle"
    c_length,    \* the length argument, then the loop counter (size_t)
    c_src,       \* the samples pcm2adpcm has read from src, in order
    c_adpcm,     \* the bytes pcm2adpcm wrote; the memory adpcm2pcm reads
    c_pcm,       \* the samples adpcm2pcm wrote, in order
    c_state,     \* signal and step of the running call
    c_encTrace,  \* history: the encoder's state after each sample
    c_decTrace,  \* history: the decoder's state after each nibble
    \* One deinterleave call followed by one interleave call (SpecStereo).
    s_pc,        \* "deinterleave", "interleave", "done", "idle"
    s_size,      \* the size argument, in bytes
    s_buf,       \* the buffer, as 16-bit samples
    s_orig,      \* history: the buffer before deinterleave
    s_mid,       \* history: the buffer after deinterleave
    \* One wav2adpcm call (Spec).
    w_pc,        \* "open", "riff", "walk", "encode", "write", "done", "idle"
    w_ret,       \* the return value: 0 or -1; Running; Crashed
    wavhdr,      \* struct wavhdr_t wavhdr
    w,           \* the other locals: have_fmt, haveLoop, loopType, ...
    pcmbuf,      \* [addr, mem]: the pointer and the samples it points to
    adpcmbuf,    \* [addr, mem]: the pointer and the bytes it points to
    w_res,       \* in / out streams open, heap blocks not freed
    outfile,     \* the output file: NoFile, or header, payload and tail
    walk,        \* history: the chunk headers read from the input, in order
    w_data,      \* history: the samples of the data chunk as read
    w_calls,     \* history: the pcm2adpcm calls made
    w_rest,      \* history: the chunk headers of the input left unread
    \* One adpcm2wav call (SpecDecode).
    d_pc,        \* "open", "header", "data", "decode", "write", "done", "idle"
    d_ret,       \* the return value: 0 or -1; Running; Crashed
    d_hdr,       \* struct wavhdr_t wavhdr
    d_inhdr,     \* history: the header as read, <<>> before that
    d,           \* pcmsize, adpcmsize
    d_pcmbuf,    \* [addr, mem]: pcmbuf
    d_adpcmbuf,  \* [addr, mem]: adpcmbuf
    d_res,       \* in / out streams open, heap blocks not freed
    d_out,       \* the output file: NoFile, or header, payload and tail
    \* The sound effect channels of snd_sfxmgr.c (SpecSfx).
    sfx_nextchan,  \* static int sfx_nextchan
    sfx_inuse,     \* static uint64 sfx_inuse, as the set of its bits set
    sfx_shift,     \* what this build makes of 1 << chn when chn >= 32
    sfx_play,      \* the snd_sfx_play call of the main thread: pc, locals
    sfx_held,      \* history: channels snd_sfx_chn_alloc returned, not freed
    sfx_last,      \* history: the call that returned last, and its result
    \* The effect list of snd_sfxmgr.c and the sound RAM (SpecEffects).
    snd_effects,   \* struct selist snd_effects: the effects, head first
    snd_mem,       \* the blocks snd_mem_malloc returned; block i is at i
    e_made,        \* the snd_effect_t allocated so far: handles 1..e_made
    e_live,        \* history: handles the loaders returned, not unloaded
    e_last         \* history: the call that returned last, and its result

codecVars == <<c_pc, c_length, c_src, c_adpcm, c_pcm, c_state,
               c_encTrace, c_decTrace>>

stereoVars == <<s_pc, s_size, s_buf, s_orig, s_mid>>

w2aVars == <<w_pc, w_ret, wavhdr, w, pcmbuf, adpcmbuf, w_res, outfile, walk,
             w_data, w_calls, w_rest>>

a2wVars == <<d_pc, d_ret, d_hdr, d_inhdr, d, d_pcmbuf, d_adpcmbuf, d_res, d_out>>

sfxVars == <<sfx_nextchan, sfx_inuse, sfx_shift, sfx_play, sfx_held,
             sfx_last>>

fxVars == <<snd_effects, snd_mem, e_made, e_live, e_last>>

vars == <<codecVars, stereoVars, w2aVars, a2wVars, sfxVars, fxVars>>

\* What the actions of one specification leave alone.
CodecFrame == UNCHANGED <<stereoVars, w2aVars, a2wVars, sfxVars, fxVars>>
StereoFrame == UNCHANGED <<codecVars, w2aVars, a2wVars, sfxVars, fxVars>>
W2aFrame == UNCHANGED <<codecVars, stereoVars, a2wVars, sfxVars, fxVars>>
A2wFrame == UNCHANGED <<codecVars, stereoVars, w2aVars, sfxVars, fxVars>>
SfxFrame == UNCHANGED <<codecVars, stereoVars, w2aVars, a2wVars, fxVars>>
FxFrame == UNCHANGED <<codecVars, stereoVars, w2aVars, a2wVars, sfxVars>>

(***************************************************************************)
(* Bounds of the model.                                                    *)
(***************************************************************************)
\* Most bytes one pcm2adpcm / adpcm2pcm run of SpecCodec produces / consumes.
MaxCodecBytes == 4

\* Most whole samples in the buffer of SpecStereo.
MaxStereoSamples == 6

\* Most chunk headers wav2adpcm reads from one input (the end of file
\* counts as one), and the largest length a data chunk declares, in bytes.
MaxChunks == 3
MaxDataLen == 8

\* The largest data size the header read by adpcm2wav declares, in bytes.
MaxAdpcmLen == 4

\* The 16-bit samples inputs are drawn from: both ends of the range and a
\* small value, so that the predictor and the step reach their clamps.
Sample == {-32768, 100, 32767}

\* The samples of the files wav2adpcm reads, and of the heap memory next
\* to its buffers.
WavSample == {-300, 32767}

\* The encoded bytes a decoder input is drawn from: nibbles 0, 7, 8 and 15.
Byte == {0, 119, 127, 248, 255}

(***************************************************************************)
(* Codec core.                                                             *)
(***************************************************************************)
diff_lookup == <<1, 3, 5, 7, 9, 11, 13, 15, -1, -3, -5, -7, -9, -11, -13, -15>>

index_scale == <<230, 230, 230, 230, 307, 409, 512, 614,
                 230, 230, 230, 230, 307, 409, 512, 614>>

\* C's int division truncates toward zero (b > 0 wherever it is used).
CDiv(a, b) == IF a >= 0 THEN a \div b ELSE -((-a) \div b)

Abs(x) == IF x < 0 THEN -x ELSE x

limit_unclamped(val, min, max) == val

limit(val, min, max) ==
    IF val < min THEN min ELSE IF val > max THEN max ELSE val

\* The fresh predictor state of every pcm2adpcm and adpcm2pcm call.
InitState == [signal |-> 0, step |-> 127]

\* The signal and step update shared by both directions, for 4-bit code val
\* and the index into index_scale the direction uses.
Update(st, val, scaleIdx) ==
    [signal |-> limit(st.signal + CDiv(st.step * diff_lookup[val + 1], 8),
                      -32768, 32767),
     step   |-> limit((st.step * index_scale[scaleIdx + 1]) \div 256,
                      127, 24576)]

\* Encoding of one sample: the code val and the state after it.  The
\* products stay far inside 32 bits (|diff| <= 65535, step <= 24576).
EncodeSample(st, sample) ==
    LET diff == CDiv((sample - st.signal) * 8, st.step)
        mag  == Abs(diff) \div 2
        val  == (IF mag > 7 THEN 7 ELSE mag) + (IF diff < 0 THEN 8 ELSE 0)
    IN  [val |-> val, st |-> Update(st, val, val)]

\* Decoding of one 4-bit code.
DecodeNibble_shift(st, val) ==
    [signal |-> limit(st.signal + (st.step * diff_lookup[val + 1]) \div 8,
                      -32768, 32767),
     step   |-> limit((st.step * index_scale[(val % 8) + 1]) \div 256,
                      127, 24576)]

DecodeNibble(st, val) == Update(st, val, val % 8)

\* One iteration of pcm2adpcm's loop on the samples s1, s2: the byte it
\* stores and the states after each sample.
Pcm2AdpcmIter_swapped(st, s1, s2) ==
    LET a == EncodeSample(st, s1)
        b == EncodeSample(a.st, s2)
    IN  [data |-> a.val * 16 + b.val,
         sts |-> <<a.st, b.st>>]

Pcm2AdpcmIter(st, s1, s2) ==
    LET a == EncodeSample(st, s1)
        b == EncodeSample(a.st, s2)
    IN  [data |-> a.val + b.val * 16,
         sts |-> <<a.st, b.st>>]

\* One iteration of adpcm2pcm's loop on the byte data: the two samples it
\* stores, in order, and the states after each.
Adpcm2PcmIter(st, data) ==
    LET a == DecodeNibble(st, data % 16)
        b == DecodeNibble(a, (data \div 16) % 16)
    IN  [out |-> <<a.signal, b.signal>>, sts |-> <<a, b>>]

\* length = (length + 3) / 4: the number of bytes pcm2adpcm means to write.
Pcm2AdpcmCount(length) == (length + 3) \div 4

\* while(--length) on a size_t: 0 wraps to the largest value.  SIZE_MAX
\* stands for 2^w - 1 (TLC's integers end at 2^31 - 1): more iterations
\* than any buffer of the model holds.
SIZE_MAX == 2147483647

Decrement(length) == IF length = 0 THEN SIZE_MAX ELSE length - 1

\* All sequences over S of a length in lo..hi.
SeqsOf(S, lo, hi) == UNION {[1..n -> S] : n \in lo..hi}

(***************************************************************************)
(* SpecCodec: pcm2adpcm on lazily revealed samples followed by adpcm2pcm   *)
(* on the bytes it wrote, or adpcm2pcm on arbitrary bytes.                 *)
(***************************************************************************)
CodecIdle ==
    /\ c_pc = "idle" /\ c_length = 0 /\ c_src = <<>> /\ c_adpcm = <<>>
    /\ c_pcm = <<>> /\ c_state = InitState
    /\ c_encTrace = <<>> /\ c_decTrace = <<>>

CodecInit ==
    /\ c_src = <<>> /\ c_pcm = <<>> /\ c_state = InitState
    /\ c_encTrace = <<>> /\ c_decTrace = <<>>
    /\ \/ /\ c_pc = "pcm2adpcm"
          /\ c_length \in 0..(4 * MaxCodecBytes)
          /\ c_adpcm = <<>>
       \/ /\ c_pc = "adpcm2pcm"
          /\ c_adpcm \in SeqsOf(Byte, 1, MaxCodecBytes)
          /\ c_length \in {0, Len(c_adpcm)}

\* pcm2adpcm, lines 44-49: fresh state, length rounded up to bytes.
C_Pcm2AdpcmEnter ==
    /\ c_pc = "pcm2adpcm"
    /\ c_length' = Pcm2AdpcmCount(c_length)
    /\ c_state' = InitState
    /\ c_pc' = "encode"
    /\ UNCHANGED <<c_src, c_adpcm, c_pcm, c_encTrace, c_decTrace>>
    /\ CodecFrame

\* pcm2adpcm, lines 51-93: one pass of the do-while loop.  The bytes are
\* then handed to adpcm2pcm with their count as its length.
C_Pcm2AdpcmLoop ==
    /\ c_pc = "encode"
    /\ Len(c_adpcm) < MaxCodecBytes
    /\ \E s1, s2 \in Sample :
          LET it   == Pcm2AdpcmIter(c_state, s1, s2)
              left == Decrement(c_length)
          IN  /\ c_src' = c_src \o <<s1, s2>>
              /\ c_adpcm' = Append(c_adpcm, it.data)
              /\ c_state' = it.sts[2]
              /\ c_encTrace' = c_encTrace \o it.sts
              /\ c_length' = IF left = 0 THEN Len(c_adpcm) + 1 ELSE left
              /\ c_pc' = IF left = 0 THEN "adpcm2pcm" ELSE "encode"
    /\ UNCHANGED <<c_pcm, c_decTrace>>
    /\ CodecFrame

\* adpcm2pcm, lines 97-99.
C_Adpcm2PcmEnter ==
    /\ c_pc = "adpcm2pcm"
    /\ c_state' = InitState
    /\ c_pc' = "decode"
    /\ UNCHANGED <<c_length, c_src, c_adpcm, c_pcm, c_encTrace, c_decTrace>>
    /\ CodecFrame

\* adpcm2pcm, lines 101-129: one pass of the do-while loop.
C_Adpcm2PcmLoop ==
    /\ c_pc = "decode"
    /\ Len(c_pcm) \div 2 < Len(c_adpcm)
    /\ LET it   == Adpcm2PcmIter(c_state, c_adpcm[Len(c_pcm) \div 2 + 1])
           left == Decrement(c_length)
       IN  /\ c_pcm' = c_pcm \o it.out
           /\ c_state' = it.sts[2]
           /\ c_decTrace' = c_decTrace \o it.sts
           /\ c_length' = left
           /\ c_pc' = IF left = 0 THEN "done" ELSE "decode"
    /\ UNCHANGED <<c_src, c_adpcm, c_encTrace>>
    /\ CodecFrame

CodecNext ==
    \/ C_Pcm2AdpcmEnter
    \/ C_Pcm2AdpcmLoop
    \/ C_Adpcm2PcmEnter
    \/ C_Adpcm2PcmLoop

(***************************************************************************)
(* Stereo transform.  A sample whose bytes are partly or wholly taken from *)
(* uninitialised heap memory holds any value: junk.                        *)
(***************************************************************************)
\* deinterleave: size / 4 samples go to each of buf1 and buf2, and size / 2
\* bytes of each are copied back, to buf and to buf + size / 4 (in samples).
\* When size / 2 is odd the last byte of each copy is uninitialised; the
\* one of the second copy stays, in sample 2 * (size / 4).
Deinterleave(buf, size, junk) ==
    LET h == size \div 4
    IN  [i \in 1..Len(buf) |->
            IF i <= h THEN buf[2 * i - 1]
            ELSE IF i <= 2 * h THEN buf[2 * (i - h)]
            ELSE IF i = 2 * h + 1 /\ (size \div 2) % 2 = 1 THEN junk
            ELSE buf[i]]

\* interleave: size / 4 sample pairs are written to a fresh buffer of size
\* bytes, which is copied back whole: the bytes past the pairs are
\* uninitialised.
Interleave_swapped(buf, size, junk) ==
    LET h == size \div 4
    IN  [i \in 1..Len(buf) |->
            IF i <= 2 * h
            THEN IF i % 2 = 1 THEN buf[h + (i + 1) \div 2] ELSE buf[i \div 2]
            ELSE junk]

Interleave(buf, size, junk) ==
    LET h == size \div 4
    IN  [i \in 1..Len(buf) |->
            IF i <= 2 * h
            THEN IF i % 2 = 1 THEN buf[(i + 1) \div 2] ELSE buf[h + i \div 2]
            ELSE junk]

(***************************************************************************)
(* SpecStereo: deinterleave, then interleave, on one buffer.               *)
(***************************************************************************)
StereoIdle ==
    /\ s_pc = "idle" /\ s_size = 0 /\ s_buf = <<>> /\ s_orig = <<>>
    /\ s_mid = <<>>

StereoInit ==
    /\ s_pc = "deinterleave"
    /\ s_size \in 0..(2 * MaxStereoSamples + 1)
    /\ s_buf \in [1..(s_size \div 2) -> Sample]
    /\ s_orig = s_buf
    /\ s_mid = <<>>

S_Deinterleave ==
    /\ s_pc = "deinterleave"
    /\ \E junk \in Sample : s_buf' = Deinterleave(s_buf, s_size, junk)
    /\ s_mid' = s_buf'
    /\ s_pc' = "interleave"
    /\ UNCHANGED <<s_size, s_orig>>
    /\ StereoFrame

S_Interleave ==
    /\ s_pc = "interleave"
    /\ \E junk \in Sample : s_buf' = Interleave(s_buf, s_size, junk)
    /\ s_pc' = "done"
    /\ UNCHANGED <<s_size, s_orig, s_mid>>
    /\ StereoFrame

StereoNext ==
    \/ S_Deinterleave
    \/ S_Interleave

(***************************************************************************)
(* The codec primitives as whole calls.                                    *)
(***************************************************************************)
\* The n samples at sample offset off of the memory a buffer starts: the
\* buffer's own samples, and past its end whatever the heap holds there.
MemRead(buf, junk, off, n) ==
    [k \in 1..n |->
        IF off + k <= Len(buf) THEN buf[off + k]
        ELSE junk[((off + k - Len(buf) - 1) % Len(junk)) + 1]]

RECURSIVE Pcm2AdpcmFrom(_, _, _)
Pcm2AdpcmFrom(st, src, i) ==
    IF 2 * i > Len(src) THEN <<>>
    ELSE LET it == Pcm2AdpcmIter(st, src[2 * i - 1], src[2 * i])
         IN  <<it.data>> \o Pcm2AdpcmFrom(it.sts[2], src, i + 1)

\* pcm2adpcm on the 2 * Pcm2AdpcmCount(length) samples it reads, when that
\* count is not 0: the bytes it writes.
Pcm2Adpcm(src) == Pcm2AdpcmFrom(InitState, src, 1)

RECURSIVE Adpcm2PcmFrom(_, _, _)
Adpcm2PcmFrom(st, src, i) ==
    IF i > Len(src) THEN <<>>
    ELSE LET it == Adpcm2PcmIter(st, src[i])
         IN  it.out \o Adpcm2PcmFrom(it.sts[2], src, i + 1)

\* adpcm2pcm on the length bytes it reads, when length is not 0.
Adpcm2Pcm(src) == Adpcm2PcmFrom(InitState, src, 1)

\* The bytes of an allocation of size bytes after bytes were stored at
\* offset off of it; Unwritten marks a byte malloc left uninitialised.
\* Stores past the allocation do not show in it.
Unwritten == -1

Blank(size) == [i \in 1..size |-> Unwritten]

Store(mem, off, bytes) ==
    [i \in 1..Len(mem) |->
        IF i > off /\ i <= off + Len(bytes) THEN bytes[i - off] ELSE mem[i]]

(***************************************************************************)
(* The input of wav2adpcm: a RIFF header and chunks, revealed as read.     *)
(***************************************************************************)
NULL == [addr |-> 0, mem |-> <<>>]

NoFile == [exists |-> FALSE]

Running == -2
Crashed == -3

\* sizeof(struct wavhdr_t)
WavHdrSize == 44

FmtChunks ==
    [id : {"fmt "}, format : {1, 20}, channels : {1, 2, 3},
     freq : {44100}, byte_per_sec : {88200}, blocksize : {2, 4}]

\* full: the file holds all len bytes of the payload.
DataChunks ==
    UNION {[id : {"data"}, len : {n}, full : {TRUE},
            samples : [1..(n \div 2) -> WavSample]] : n \in 0..MaxDataLen}
    \cup [id : {"data"}, len : 1..MaxDataLen, full : {FALSE},
          samples : {<<>>}]

SmplChunks ==
    [id : {"smpl"}, loopType : {0, 1}, startLoop : {0, 9},
     endLoop : {0, 2, 9}]

OtherChunks == {[id |-> "LIST"]}

EndOfFile == [id |-> "EOF"]

\* What follows a smpl chunk in the input, which the walk never reads:
\* nothing, or the data chunk when none came before.
RestOfFile(read) ==
    IF \E i \in 1..Len(read) : read[i].id = "data"
    THEN {<<>>}
    ELSE {<<>>} \cup {<<[id |-> "data", len |-> n, full |-> TRUE]>> :
                        n \in {4, MaxDataLen}}

\* What walk keeps of a chunk: everything but the payload.
Header(c) ==
    IF c.id = "data" THEN [id |-> "data", len |-> c.len, full |-> c.full]
    ELSE c

(***************************************************************************)
(* wav2adpcm.                                                              *)
(***************************************************************************)
\* Line 219: memcmp(hdr1, "RIFF", 3) looks at three bytes only.
RiffRejected(hdr1, hdr2) ==
    ~(hdr1 \in {"RIFF", "RIFX"}) \/ hdr2 # "WAVE"

\* Line 281.
FmtRejected_nodup(have_fmt, c) ==
    (c.channels # 1 /\ c.channels # 2) \/ c.format # 1

FmtRejected(have_fmt, c) ==
    have_fmt \/ (c.channels # 1 /\ c.channels # 2) \/ c.format # 1

\* Line 261.
HaveLoop_anytype(lType, eLoop) == eLoop > 0

HaveLoop(lType, eLoop) == lType = 0 /\ eLoop > 0

\* Lines 264-269.
ClampStart(sLoop, nSampleLength) ==
    IF sLoop > nSampleLength THEN 0 ELSE sLoop

ClampEnd_none(eLoop, nSampleLength) == eLoop

ClampEnd(eLoop, nSampleLength) ==
    IF eLoop > nSampleLength THEN nSampleLength ELSE eLoop

\* The locals as declared (lines 193-203): wavhdr is not initialised, and
\* its fields are not read before a fmt chunk sets them unless no data was
\* loaded, in which case the first use of pcmbuf ends the run.
Uninit == -1

W2aInit ==
    /\ w_pc = "open"
    /\ w_ret = Running
    /\ wavhdr = [hdr1 |-> "", totalsize |-> Uninit, hdr2 |-> "",
                 hdrsize |-> Uninit, format |-> Uninit, channels |-> Uninit,
                 freq |-> Uninit, byte_per_sec |-> Uninit,
                 blocksize |-> Uninit, bits |-> Uninit,
                 hdr3 |-> "", datasize |-> Uninit]
    /\ w = [have_fmt |-> FALSE, haveLoop |-> FALSE, loopType |-> 0,
            startLoop |-> 0, endLoop |-> 0, nSampleLength |-> 0,
            pcmsize |-> 0, adpcmsize |-> 0]
    /\ pcmbuf = NULL
    /\ adpcmbuf = NULL
    /\ w_res = [in_open |-> FALSE, out_open |-> FALSE, live |-> 0]
    /\ outfile = NoFile
    /\ walk = <<>>
    /\ w_data = <<>>
    /\ w_calls = <<>>
    /\ w_rest = <<>>

W2aIdle ==
    /\ w_pc = "idle" /\ w_ret = Running /\ wavhdr = <<>> /\ w = <<>>
    /\ pcmbuf = NULL /\ adpcmbuf = NULL /\ w_res = <<>>
    /\ outfile = NoFile /\ walk = <<>> /\ w_data = <<>> /\ w_calls = <<>>
    /\ w_rest = <<>>

\* return -1 after fclose(in).
W_Fail ==
    /\ w_pc' = "done"
    /\ w_ret' = -1
    /\ w_res' = [w_res EXCEPT !.in_open = FALSE]

\* The run ends in a fault (a store or load outside every mapping, or the
\* allocator finding its heap overwritten): nothing more is done.
W_Crash ==
    /\ w_pc' = "done"
    /\ w_ret' = Crashed

\* Lines 205-210.
W_Open ==
    /\ w_pc = "open"
    /\ \E ok \in BOOLEAN :
          IF ok
          THEN /\ w_pc' = "riff"
               /\ w_res' = [w_res EXCEPT !.in_open = TRUE]
               /\ UNCHANGED w_ret
          ELSE /\ w_pc' = "done"
               /\ w_ret' = -1
               /\ UNCHANGED w_res
    /\ UNCHANGED <<wavhdr, w, pcmbuf, adpcmbuf, outfile, walk, w_data,
                   w_calls, w_rest>>
    /\ W2aFrame

\* Lines 212-223: the RIFF header, short or whole.
W_ReadRiff ==
    /\ w_pc = "riff"
    /\ \E short \in BOOLEAN, hdr1 \in {"RIFF", "RIFX", "FORM"},
          hdr2 \in {"WAVE", "AVI "} :
          IF short
          THEN W_Fail /\ UNCHANGED wavhdr
          ELSE /\ wavhdr' = [wavhdr EXCEPT !.hdr1 = hdr1, !.hdr2 = hdr2]
               /\ IF RiffRejected(hdr1, hdr2)
                  THEN W_Fail
                  ELSE w_pc' = "walk" /\ UNCHANGED <<w_ret, w_res>>
    /\ UNCHANGED <<w, pcmbuf, adpcmbuf, outfile, walk, w_data, w_calls,
                   w_rest>>
    /\ W2aFrame

\* Lines 248-271: the smpl chunk ends the walk.
W_Smpl(c) ==
    /\ w' = [w EXCEPT
               !.loopType = c.loopType,
               !.haveLoop = IF HaveLoop(c.loopType, c.endLoop)
                            THEN TRUE ELSE w.haveLoop,
               !.startLoop = ClampStart(c.startLoop, w.nSampleLength),
               !.endLoop = ClampEnd(c.endLoop, w.nSampleLength)]
    /\ w_pc' = "encode"
    /\ UNCHANGED <<w_ret, wavhdr, pcmbuf, adpcmbuf, w_res, w_data>>

\* Lines 273-287.
W_Fmt(c) ==
    /\ wavhdr' = [wavhdr EXCEPT !.format = c.format,
                                !.channels = c.channels, !.freq = c.freq,
                                !.byte_per_sec = c.byte_per_sec,
                                !.blocksize = c.blocksize, !.bits = 16]
    /\ IF FmtRejected(w.have_fmt, c)
       THEN W_Fail /\ UNCHANGED w
       ELSE /\ w' = [w EXCEPT !.have_fmt = TRUE]
            /\ UNCHANGED <<w_pc, w_ret, w_res>>
    /\ UNCHANGED <<pcmbuf, adpcmbuf, w_data>>

\* Lines 289-315.  fread(pcmbuf, pcmsize, 1, in) returns 1 only if pcmsize
\* is not 0 and the file holds that many bytes.  Buffers of an earlier data
\* chunk are not freed.
W_Data(c) ==
    IF ~w.have_fmt
    THEN W_Fail /\ UNCHANGED <<wavhdr, w, pcmbuf, adpcmbuf, w_data>>
    ELSE IF wavhdr.blocksize # 2
    THEN /\ W_Fail
         /\ w' = [w EXCEPT !.nSampleLength = c.len \div 2]
         /\ UNCHANGED <<wavhdr, pcmbuf, adpcmbuf, w_data>>
    ELSE /\ w' = [w EXCEPT !.nSampleLength = c.len \div 2,
                           !.pcmsize = c.len, !.adpcmsize = c.len \div 4]
         /\ adpcmbuf' = [addr |-> w_res.live + 2,
                         mem |-> Blank(c.len \div 4)]
         /\ UNCHANGED wavhdr
         /\ IF c.len = 0 \/ ~c.full
            THEN /\ w_pc' = "done"
                 /\ w_ret' = -1
                 /\ w_res' = [w_res EXCEPT !.in_open = FALSE,
                                           !.live = @ + 2]
                 /\ pcmbuf' = [addr |-> w_res.live + 1, mem |-> <<>>]
                 /\ UNCHANGED w_data
            ELSE /\ pcmbuf' = [addr |-> w_res.live + 1, mem |-> c.samples]
                 /\ w_data' = c.samples
                 /\ w_res' = [w_res EXCEPT !.live = @ + 2]
                 /\ UNCHANGED <<w_pc, w_ret>>

\* Lines 225-322: one pass of the chunk loop.  fseek (line 319) clears the
\* end-of-file indicator of the stream, so the feof test that follows it
\* (line 320) never holds: the loop is left only at a smpl chunk, or by a
\* return.
W_Chunk ==
    /\ w_pc = "walk"
    /\ Len(walk) < MaxChunks
    /\ \E c \in FmtChunks \cup DataChunks \cup SmplChunks \cup OtherChunks
                \cup {EndOfFile} :
          /\ walk' = Append(walk, Header(c))
          /\ w_rest' \in IF c.id = "smpl" THEN RestOfFile(walk) ELSE {<<>>}
          /\ CASE c.id = "EOF" ->
                    W_Fail /\ UNCHANGED <<wavhdr, w, pcmbuf, adpcmbuf, w_data>>
               [] c.id = "smpl" -> W_Smpl(c)
               [] c.id = "fmt " -> W_Fmt(c)
               [] c.id = "data" -> W_Data(c)
               [] OTHER ->
                    UNCHANGED <<w_pc, w_ret, wavhdr, w, pcmbuf, adpcmbuf,
                                w_res, w_data>>
    /\ UNCHANGED <<outfile, w_calls>>
    /\ W2aFrame

\* A pcm2adpcm call as w_calls keeps it: the length passed, the byte
\* offset of dst in adpcmbuf, the sample offset of src in pcmbuf, the
\* samples read and the bytes written.
Call(length, off, from, src) ==
    [length |-> length, off |-> off, from |-> from, src |-> src,
     dst |-> Pcm2Adpcm(src)]

\* The samples pcm2adpcm reads past the end of pcmbuf (any values), the
\* sample deinterleave leaves half written (any value), and whether the run
\* goes on after a store past the end of adpcmbuf; each is fixed when the
\* call does not reach it.
OneJunk == {[k \in 1..2 |-> 0]}

ReadsPast(channels, pcmsize) ==
    IF channels = 1
    THEN 2 * Pcm2AdpcmCount(pcmsize) > pcmsize \div 2
    ELSE pcmsize \div 4 + 2 * Pcm2AdpcmCount(pcmsize \div 2) > pcmsize \div 2

HeapJunk(channels, pcmsize) ==
    IF ReadsPast(channels, pcmsize) THEN [1..2 -> WavSample] ELSE OneJunk

DeinterleaveJunk(channels, pcmsize) ==
    IF channels # 1 /\ (pcmsize \div 2) % 2 = 1 THEN WavSample ELSE {0}

StoresPast(channels, pcmsize) ==
    IF channels = 1
    THEN Pcm2AdpcmCount(pcmsize) > pcmsize \div 4
    ELSE (pcmsize \div 4) \div 2 + Pcm2AdpcmCount(pcmsize \div 2)
             > pcmsize \div 4

Survives(channels, pcmsize) ==
    IF StoresPast(channels, pcmsize) THEN BOOLEAN ELSE {TRUE}

\* Lines 324-350.  A load through a null pcmbuf, or a loop whose counter
\* starts at 0 and wraps, ends the run; a store past the end of adpcmbuf
\* lands in the allocator's memory, and the run either goes on or not.
W_Encode ==
    /\ w_pc = "encode"
    /\ w_res' = [w_res EXCEPT !.in_open = FALSE]
    /\ wavhdr' = [wavhdr EXCEPT !.hdr2 = "WAVEfmt ", !.hdrsize = 16,
                                !.hdr3 = "data", !.datasize = w.adpcmsize]
    /\ w' = IF w.endLoop = 0
            THEN [w EXCEPT !.startLoop = 0, !.endLoop = w.nSampleLength,
                           !.haveLoop = FALSE]
            ELSE w
    /\ IF pcmbuf.addr = 0
       THEN W_Crash /\ UNCHANGED <<pcmbuf, adpcmbuf, w_calls>>
       ELSE \E junk \in HeapJunk(wavhdr.channels, w.pcmsize),
               dj \in DeinterleaveJunk(wavhdr.channels, w.pcmsize),
               survives \in Survives(wavhdr.channels, w.pcmsize) :
          IF wavhdr.channels = 1
          THEN LET n    == Pcm2AdpcmCount(w.pcmsize)
                   call == Call(w.pcmsize, 0, 0,
                                MemRead(pcmbuf.mem, junk, 0, 2 * n))
               IN  /\ w_calls' = <<call>>
                   /\ adpcmbuf' = [adpcmbuf EXCEPT
                                     !.mem = Store(@, 0, call.dst)]
                   /\ UNCHANGED pcmbuf
                   /\ IF ~survives
                      THEN W_Crash
                      ELSE w_pc' = "write" /\ UNCHANGED w_ret
          ELSE LET de   == Deinterleave(pcmbuf.mem, w.pcmsize, dj)
                   n    == Pcm2AdpcmCount(w.pcmsize \div 2)
                   left == Call(w.pcmsize \div 2, 0, 0,
                                MemRead(de, junk, 0, 2 * n))
                   right == Call(w.pcmsize \div 2, w.adpcmsize \div 2,
                                 w.pcmsize \div 4,
                                 MemRead(de, junk, w.pcmsize \div 4, 2 * n))
               IN  /\ pcmbuf' = [pcmbuf EXCEPT !.mem = de]
                   /\ IF n = 0
                      THEN W_Crash /\ UNCHANGED <<adpcmbuf, w_calls>>
                      ELSE /\ w_calls' = <<left, right>>
                           /\ adpcmbuf' =
                                [adpcmbuf EXCEPT
                                   !.mem = Store(Store(@, 0, left.dst),
                                                 right.off, right.dst)]
                           /\ IF ~survives
                              THEN W_Crash
                              ELSE w_pc' = "write" /\ UNCHANGED w_ret
    /\ UNCHANGED <<outfile, walk, w_data, w_rest>>
    /\ W2aFrame

\* The loop chunk of lines 367-373: id, length 0x3c, nine zero words, a
\* zero word, loop type, start, end, two zero words.
SmplOut(lType, sLoop, eLoop) ==
    [id |-> "smpl", len |-> 60,
     words |-> <<0, 0, 0, 0, 0, 0, 0, 0, 0, 0, lType, sLoop, eLoop, 0, 0>>]

\* Lines 352-381.  fwrite(adpcmbuf, adpcmsize, 1, out) returns 1 only if
\* adpcmsize is not 0; the header written before it stays in the file.
W_Write ==
    /\ w_pc = "write"
    /\ wavhdr' = [wavhdr EXCEPT !.datasize = w.adpcmsize, !.format = 20,
                                !.bits = 4,
                                !.totalsize = w.adpcmsize + WavHdrSize - 8]
    /\ w_pc' = "done"
    /\ w_res' = [w_res EXCEPT !.out_open = FALSE]
    /\ IF w.adpcmsize = 0
       THEN /\ outfile' = [exists |-> TRUE, hdr |-> wavhdr',
                           payload |-> <<>>, tail |-> <<>>]
            /\ w_ret' = -1
       ELSE /\ outfile' = [exists |-> TRUE, hdr |-> wavhdr',
                           payload |-> adpcmbuf.mem,
                           tail |-> IF w.haveLoop
                                    THEN <<SmplOut(w.loopType, w.startLoop,
                                                   w.endLoop)>>
                                    ELSE <<>>]
            /\ w_ret' = 0
    /\ UNCHANGED <<w, pcmbuf, adpcmbuf, walk, w_data, w_calls, w_rest>>
    /\ W2aFrame

W2aNext ==
    \/ W_Open
    \/ W_ReadRiff
    \/ W_Chunk
    \/ W_Encode
    \/ W_Write

(***************************************************************************)
(* adpcm2wav.  The input file is a 44-byte header, a payload and whatever  *)
(* follows it, revealed as read.                                           *)
(***************************************************************************)
InHeaders ==
    [hdr1 : {"RIFF", "RIFX"}, totalsize : {0},
     hdr2 : {"WAVEfmt ", "WAVELIST"}, hdrsize : {16, 18},
     format : {20, 1}, channels : {1, 2, 3}, freq : {44100},
     byte_per_sec : {88200}, blocksize : {2}, bits : {4, 16}, hdr3 : {"data", "smpl"},
     datasize : 0..MaxAdpcmLen]

\* Lines 404-410.
HeaderRejected_nobits(h) ==
    \/ h.hdr1 # "RIFF"
    \/ h.hdr2 # "WAVEfmt "
    \/ h.hdr3 # "data"
    \/ h.hdrsize # 16
    \/ h.format # 20
    \/ (h.channels # 1 /\ h.channels # 2)

HeaderRejected(h) ==
    \/ h.hdr1 # "RIFF"
    \/ h.hdr2 # "WAVEfmt "
    \/ h.hdr3 # "data"
    \/ h.hdrsize # 16
    \/ h.format # 20
    \/ (h.channels # 1 /\ h.channels # 2)
    \/ h.bits # 4

A2wInit ==
    /\ d_pc = "open"
    /\ d_ret = Running
    /\ d_hdr = <<>>
    /\ d_inhdr = <<>>
    /\ d = [pcmsize |-> Uninit, adpcmsize |-> Uninit]
    /\ d_pcmbuf = NULL
    /\ d_adpcmbuf = NULL
    /\ d_res = [in_open |-> FALSE, out_open |-> FALSE, live |-> 0]
    /\ d_out = NoFile

A2wIdle ==
    /\ d_pc = "idle" /\ d_ret = Running /\ d_hdr = <<>> /\ d = <<>>
    /\ d_inhdr = <<>>
    /\ d_pcmbuf = NULL /\ d_adpcmbuf = NULL /\ d_res = <<>>
    /\ d_out = NoFile

\* return -1 after fclose(in).
D_Fail ==
    /\ d_pc' = "done"
    /\ d_ret' = -1
    /\ d_res' = [d_res EXCEPT !.in_open = FALSE]

\* Lines 391-396.
D_Open ==
    /\ d_pc = "open"
    /\ \E ok \in BOOLEAN :
          IF ok
          THEN /\ d_pc' = "header"
               /\ d_res' = [d_res EXCEPT !.in_open = TRUE]
               /\ UNCHANGED d_ret
          ELSE /\ d_pc' = "done"
               /\ d_ret' = -1
               /\ UNCHANGED d_res
    /\ UNCHANGED <<d_hdr, d_inhdr, d, d_pcmbuf, d_adpcmbuf, d_out>>
    /\ A2wFrame

\* Lines 398-414: the header, short or whole, and its validation.
D_ReadHeaderFrom(short, h) ==
    /\ d_pc = "header"
    /\ IF short
       THEN D_Fail /\ UNCHANGED <<d_hdr, d_inhdr>>
       ELSE /\ d_hdr' = h
            /\ d_inhdr' = <<h>>
            /\ IF HeaderRejected(h)
               THEN D_Fail
               ELSE d_pc' = "data" /\ UNCHANGED <<d_ret, d_res>>
    /\ UNCHANGED <<d, d_pcmbuf, d_adpcmbuf, d_out>>
    /\ A2wFrame

D_ReadHeader ==
    /\ d_pc = "header"
    /\ \E short \in BOOLEAN, h \in InHeaders : D_ReadHeaderFrom(short, h)

\* Lines 416-426.  fread(adpcmbuf, adpcmsize, 1, in) returns 1 only if
\* adpcmsize is not 0 and the file holds that many bytes.
D_ReadDataFrom(full, bytes) ==
    /\ d_pc = "data"
    /\ d' = [pcmsize |-> d_hdr.datasize * 4, adpcmsize |-> d_hdr.datasize]
    /\ d_pcmbuf' = [addr |-> 2, mem |-> [i \in 1..(2 * d_hdr.datasize)
                                            |-> Unwritten]]
    /\ IF d_hdr.datasize = 0 \/ ~full
       THEN /\ d_pc' = "done"
            /\ d_ret' = -1
            /\ d_res' = [d_res EXCEPT !.in_open = FALSE, !.live = 2]
            /\ d_adpcmbuf' = [addr |-> 1, mem |-> Blank(d_hdr.datasize)]
       ELSE /\ d_adpcmbuf' = [addr |-> 1, mem |-> bytes]
            /\ d_res' = [d_res EXCEPT !.in_open = FALSE, !.live = 2]
            /\ d_pc' = "decode"
            /\ UNCHANGED d_ret
    /\ UNCHANGED <<d_hdr, d_inhdr, d_out>>
    /\ A2wFrame

D_ReadData ==
    /\ d_pc = "data"
    /\ \E full \in BOOLEAN, bytes \in [1..d_hdr.datasize -> Byte] :
          D_ReadDataFrom(full, bytes)

\* The n bytes at offset off of a byte buffer.
Bytes(mem, off, n) == [k \in 1..n |-> mem[off + k]]

\* Samples stored at sample offset off of a sample buffer.
StoreSamples(mem, off, samples) == Store(mem, off, samples)

\* A sample adpcm2pcm never stored holds what the heap held: any value.
Filled(mem, junk) ==
    [i \in 1..Len(mem) |->
        IF mem[i] = Unwritten THEN junk[(i % 2) + 1] ELSE mem[i]]

\* Lines 428-435.  A stereo file of one byte makes adpcm2pcm start its loop
\* counter at 0, which wraps: the loop runs past every buffer.
D_Decode ==
    /\ d_pc = "decode"
    /\ IF d_hdr.channels = 1
       THEN /\ d_pcmbuf' = [d_pcmbuf EXCEPT
                              !.mem = Adpcm2Pcm(d_adpcmbuf.mem)]
            /\ d_pc' = "write"
            /\ UNCHANGED d_ret
       ELSE LET half  == d.adpcmsize \div 2
                left  == Adpcm2Pcm(Bytes(d_adpcmbuf.mem, 0, half))
                right == Adpcm2Pcm(Bytes(d_adpcmbuf.mem, half, half))
                split == StoreSamples(StoreSamples(d_pcmbuf.mem, 0, left),
                                      d.pcmsize \div 4, right)
            IN  IF half = 0
                THEN /\ d_pc' = "done"
                     /\ d_ret' = Crashed
                     /\ UNCHANGED d_pcmbuf
                ELSE /\ \E junk \in (IF d.adpcmsize % 2 = 1
                                     THEN [1..2 -> WavSample]
                                     ELSE OneJunk) :
                          d_pcmbuf' =
                            [d_pcmbuf EXCEPT
                               !.mem = Interleave(Filled(split, junk),
                                                  d.pcmsize, 0)]
                     /\ d_pc' = "write"
                     /\ UNCHANGED d_ret
    /\ UNCHANGED <<d_hdr, d_inhdr, d, d_adpcmbuf, d_res, d_out>>
    /\ A2wFrame

\* Lines 437-454.
D_Write ==
    /\ d_pc = "write"
    /\ d_hdr' = [d_hdr EXCEPT
                   !.blocksize = d_hdr.channels * 2,
                   !.byte_per_sec = d_hdr.freq * d_hdr.channels * 2,
                   !.datasize = d.pcmsize,
                   !.totalsize = d.pcmsize + WavHdrSize - 8,
                   !.format = 1, !.bits = 16]
    /\ d_out' = [exists |-> TRUE, hdr |-> d_hdr', payload |-> d_pcmbuf.mem,
                 tail |-> <<>>]
    /\ d_pc' = "done"
    /\ d_ret' = 0
    /\ UNCHANGED <<d_inhdr, d, d_pcmbuf, d_adpcmbuf, d_res>>
    /\ A2wFrame

A2wNext ==
    \/ D_Open
    \/ D_ReadHeader
    \/ D_ReadData
    \/ D_Decode
    \/ D_Write

(***************************************************************************)
(* adpcm2wav run on the file a successful wav2adpcm call wrote.  The file  *)
(* is the header, the payload and the loop chunk if any: the 44 bytes of   *)
(* the header and the datasize bytes after it are all there.               *)
(***************************************************************************)
R_Open ==
    /\ w_pc = "done" /\ w_ret = 0
    /\ d_pc = "idle"
    /\ d_pc' = "header"
    /\ d' = [pcmsize |-> Uninit, adpcmsize |-> Uninit]
    /\ d_res' = [in_open |-> TRUE, out_open |-> FALSE, live |-> 0]
    /\ UNCHANGED <<d_ret, d_hdr, d_inhdr, d_pcmbuf, d_adpcmbuf, d_out>>
    /\ A2wFrame

R_ReadHeader ==
    /\ d_pc = "header"
    /\ D_ReadHeaderFrom(FALSE, outfile.hdr)

R_ReadData ==
    /\ d_pc = "data"
    /\ D_ReadDataFrom(Len(outfile.payload) >= d_hdr.datasize,
                      Bytes(outfile.payload, 0, d_hdr.datasize))

RoundTripNext ==
    \/ W2aNext
    \/ R_Open
    \/ R_ReadHeader
    \/ R_ReadData
    \/ D_Decode
    \/ D_Write

(***************************************************************************)
(* snd_sfxmgr.c: the channel-in-use mask, snd_sfx_chn_alloc,               *)
(* snd_sfx_chn_free and snd_sfx_play.  The mask is a uint64, kept here as  *)
(* the set of the positions of its bits set.                               *)
(***************************************************************************)
NumChans == 64

AllBits == 0..(NumChans - 1)

\* The bits of a 32-bit int, of which bit 31 is the sign.
IntBits == 32

\* The bits set in (uint64)(1 << chn), 1 being an int.  1 << 31 is
\* INT_MIN, which converts to a uint64 with bits 31..63 all set.  A shift
\* by 32 or more is undefined: the shift instruction either takes the
\* count modulo 32 ("wrap") or gives 0 ("zero").
ShiftBits(chn, shift) ==
    LET c == IF chn >= IntBits /\ shift = "wrap" THEN chn % IntBits ELSE chn
    IN  IF c >= IntBits THEN {}
        ELSE IF c = IntBits - 1 THEN (IntBits - 1)..(NumChans - 1)
        ELSE {c}

\* sfx_inuse & (1 << chn), lines 709, 824 and 837.
InUseTest(chn) == ShiftBits(chn, sfx_shift) \cap sfx_inuse # {}

\* sfx_inuse |= 1 << chn, line 843.
SetBits(chn) == sfx_inuse \cup ShiftBits(chn, sfx_shift)

\* sfx_inuse &= ~(1 << chn), line 854: ~(1 << chn) is an int, converted to
\* uint64 with its sign.
ClearBits(chn) == sfx_inuse \ ShiftBits(chn, sfx_shift)

\* Lines 836-838: the first chn in 0..63 whose test fails, or 64.
RECURSIVE AllocScan(_)
AllocScan(chn) ==
    IF chn < NumChans /\ InUseTest(chn) THEN AllocScan(chn + 1) ELSE chn

\* Lines 709-716: the loop of snd_sfx_play from chn, moved.
RECURSIVE PlayScan(_, _)
PlayScan(chn, moved) ==
    IF ~InUseTest(chn) THEN [chn |-> chn, moved |-> moved]
    ELSE LET next == (chn + 1) % NumChans
         IN  IF sfx_nextchan = next
             THEN [chn |-> next, moved |-> moved]
             ELSE PlayScan(next, moved + 1)

\* Lines 681-696: the channels snd_sfx_play_chn sends a start command to.
StartCmds(chn, stereo) == IF stereo THEN <<chn, chn + 1>> ELSE <<chn>>

\* The channels snd_sfx_chn_free is called with.
FreeArgs == {0, 31, 32}

NoCall == [op |-> "none"]

SfxInit ==
    /\ sfx_nextchan = 0
    /\ sfx_inuse = {}
    /\ sfx_shift \in {"wrap", "zero"}
    /\ sfx_play = [pc |-> "idle"]
    /\ sfx_held = {}
    /\ sfx_last = NoCall

SfxIdle ==
    /\ sfx_nextchan = 0 /\ sfx_inuse = {} /\ sfx_shift = "wrap"
    /\ sfx_play = [pc |-> "off"] /\ sfx_held = {} /\ sfx_last = NoCall

\* snd_sfx_chn_alloc, lines 831-848, the whole of it with interrupts off.
X_ChnAlloc ==
    /\ sfx_play.pc = "idle"
    /\ LET chn == AllocScan(0)
       IN  IF chn >= NumChans
           THEN /\ sfx_last' = [op |-> "alloc", ret |-> -1,
                                inuse0 |-> sfx_inuse, held0 |-> sfx_held]
                /\ UNCHANGED <<sfx_inuse, sfx_held>>
           ELSE /\ sfx_inuse' = SetBits(chn)
                /\ sfx_held' = sfx_held \cup {chn}
                /\ sfx_last' = [op |-> "alloc", ret |-> chn,
                                inuse0 |-> sfx_inuse, held0 |-> sfx_held]
    /\ UNCHANGED <<sfx_nextchan, sfx_shift, sfx_play>>
    /\ SfxFrame

\* snd_sfx_chn_free, lines 850-856.
X_ChnFree ==
    /\ sfx_play.pc = "idle"
    /\ \E chn \in FreeArgs :
          /\ sfx_inuse' = ClearBits(chn)
          /\ sfx_held' = sfx_held \ {chn}
          /\ sfx_last' = [op |-> "free", arg |-> chn, inuse0 |-> sfx_inuse]
    /\ UNCHANGED <<sfx_nextchan, sfx_shift, sfx_play>>
    /\ SfxFrame

\* Lines 720-726 of snd_sfx_play with the locals chn and moved: the
\* return value, the commands sent, the new sfx_nextchan.
PlayFinish(chn, moved, stereo) ==
    IF moved # 0 /\ chn = sfx_nextchan
    THEN [ret |-> -1, cmds |-> <<>>, nextchan |-> sfx_nextchan]
    ELSE [ret |-> chn, cmds |-> StartCmds(chn, stereo),
          nextchan |-> (chn + 2) % NumChans]

\* snd_sfx_play on the main thread, lines 705-718: the scan, with
\* interrupts off.
X_PlayScan ==
    /\ sfx_play.pc = "idle"
    /\ \E stereo \in BOOLEAN :
          LET r == PlayScan(sfx_nextchan, 0)
          IN  sfx_play' = [pc |-> "scanned", chn |-> r.chn,
                           moved |-> r.moved, stereo |-> stereo,
                           inuse0 |-> sfx_inuse, next0 |-> sfx_nextchan,
                           irq |-> <<>>]
    /\ UNCHANGED <<sfx_nextchan, sfx_inuse, sfx_shift, sfx_held, sfx_last>>
    /\ SfxFrame

\* snd_sfx_play on the main thread, lines 720-726, interrupts on again.
X_PlayFinish ==
    /\ sfx_play.pc = "scanned"
    /\ LET f == PlayFinish(sfx_play.chn, sfx_play.moved, sfx_play.stereo)
       IN  /\ sfx_nextchan' = f.nextchan
           /\ sfx_last' = [op |-> "play", ret |-> f.ret, cmds |-> f.cmds,
                           inuse0 |-> sfx_play.inuse0,
                           next0 |-> sfx_play.next0,
                           next1 |-> f.nextchan,
                           irq |-> sfx_play.irq]
    /\ sfx_play' = [pc |-> "idle"]
    /\ UNCHANGED <<sfx_inuse, sfx_shift, sfx_held>>
    /\ SfxFrame

\* A whole snd_sfx_play call made by an interrupt handler while the main
\* thread is between line 718 and line 720 of its own: irq keeps what it
\* returned.
X_PlayIrq ==
    /\ sfx_play.pc = "scanned"
    /\ sfx_play.irq = <<>>
    /\ \E stereo \in BOOLEAN :
          LET r == PlayScan(sfx_nextchan, 0)
              f == PlayFinish(r.chn, r.moved, stereo)
          IN  /\ sfx_nextchan' = f.nextchan
              /\ sfx_play' = [sfx_play EXCEPT !.irq = <<f.ret>>]
    /\ UNCHANGED <<sfx_inuse, sfx_shift, sfx_held, sfx_last>>
    /\ SfxFrame

\* Lines 823-828: the channels from i up that snd_sfx_stop_all calls
\* snd_sfx_stop with, in order; each call sends one stop command with
\* cmd_id = i (lines 801-818).
RECURSIVE StopScan(_)
StopScan(i) ==
    IF i >= NumChans THEN <<>>
    ELSE IF InUseTest(i) THEN StopScan(i + 1)
    ELSE <<i>> \o StopScan(i + 1)

\* snd_sfx_stop_all, lines 820-829; inuse1 and next1 keep the mask and the
\* cursor as the call leaves them.
X_StopAll ==
    /\ sfx_play.pc = "idle"
    /\ UNCHANGED <<sfx_nextchan, sfx_inuse, sfx_shift, sfx_play, sfx_held>>
    /\ sfx_last' = [op |-> "stop_all", cmds |-> StopScan(0),
                    inuse0 |-> sfx_inuse, next0 |-> sfx_nextchan,
                    inuse1 |-> sfx_inuse', next1 |-> sfx_nextchan']
    /\ SfxFrame

SfxNext ==
    \/ X_ChnAlloc
    \/ X_ChnFree
    \/ X_PlayScan
    \/ X_PlayFinish
    \/ X_PlayIrq
    \/ X_StopAll

(***************************************************************************)
(* snd_sfxmgr.c: the effect list.  snd_sfx_load, snd_sfx_loadEx and        *)
(* snd_sfx_load_mem build a snd_effect_t and put it at the head of         *)
(* snd_effects; snd_sfx_unload and snd_sfx_unload_all take effects out;    *)
(* snd_sfx_play_chn and the update calls send commands for one.  A handle  *)
(* is the address of the snd_effect_t, here its number.                    *)
(*                                                                         *)
(* A uint32 is kept as the int of the same 32 bits: the values from 2^31   *)
(* up are the negative ones.                                               *)
(***************************************************************************)
SFXHND_INVALID == 0

\* Most snd_effect_t the loaders allocate in one run.
MaxLoads == 2

\* The bytes at the start of each sound RAM block that the model keeps.
Shown == 4

\* The uint32 0x80000000.
Bit31 == -2147483647 - 1

\* x >> 1 and x / 2 of a uint32 x.
U32Half(x) ==
    IF x >= 0 THEN x \div 2 ELSE (x - Bit31) \div 2 + 1073741824

\* x * 4 of a uint32 x, modulo 2^32.
U32Times4(x) ==
    LET lo == x % 1073741824
    IN  IF lo >= 536870912 THEN (lo - 536870912) * 4 + Bit31 ELSE lo * 4

\* a < b of two uint32.
U32Less(a, b) == IF (a < 0) = (b < 0) THEN a < b ELSE b < 0

\* Byte i (from 0) of the sample data of a file or of the buffer given to
\* snd_sfx_load_mem: each byte differs from the ones around it.
DataByte(i) == (37 * i + 11) % 256

\* The WAV files of the model, by the header fields the loaders read: the
\* four bytes at 0x08, the format tag at 0x14, the channel count at 0x16,
\* the rate at 0x18, the block align at 0x20, the bits per sample at 0x22
\* and the data length at 0x28.  The data is at 0x2c, len bytes of it.
WavFile(m, f, c, a, b, n) ==
    [magic |-> m, fmt |-> f, channels |-> c, hz |-> 44100,
     blockalign |-> a, bits |-> b, len |-> n]

\* A mono 8-bit file cut short: its header declares 2^31 bytes of data.
CutShort == WavFile("WAVE", 1, 1, 1, 8, Bit31)

\* Mono and stereo PCM and ADPCM files as encoders write them, then the
\* odd ones: a bits field of 0, three channels, a file that is not a WAV.
WavFiles ==
    {WavFile("WAVE", 1, 1, 1, 8, 8), WavFile("WAVE", 1, 1, 2, 16, 8),
     WavFile("WAVE", 20, 1, 1, 4, 8),
     WavFile("WAVE", 1, 2, 4, 16, 8), WavFile("WAVE", 20, 2, 2, 4, 8),
     WavFile("WAVE", 1, 1, 2, 0, 8), WavFile("WAVE", 1, 2, 1, 0, 8),
     WavFile("WAVE", 1, 3, 6, 16, 8), WavFile("AVI ", 1, 1, 1, 8, 8),
     CutShort}

\* Lines 136-137: fs_read(fd, &blockAlign, 4) at offset 0x20 reads the two
\* bytes of the block align and the two bytes of the bits per sample after
\* them into one little-endian uint32.
BlockAlignRead(h) == h.blockalign + 65536 * h.bits

\* What a loader is about to register: the fields of the snd_effect_t and
\* the sound RAM blocks to fill, each with its size and with where its
\* 16-bit words come from in the data (base, then one word every step
\* bytes).
Refused == [ok |-> FALSE]

\* Lines 172-199, the mono branch, t->len being len0 when it is entered.
MonoPlan(len0, fmt, hz, blockAlign, len) ==
    LET halved == IF blockAlign = 2 \/ fmt = 20 THEN U32Half(len0)
                  ELSE len0
    IN  [ok |-> TRUE,
         len |-> IF fmt = 20 THEN U32Times4(halved) ELSE halved,
         rate |-> hz % 65536,
         stereo |-> FALSE,
         fmt |-> IF fmt = 20 THEN "AICA_SM_ADPCM"
                 ELSE IF blockAlign = 2 THEN "AICA_SM_16BIT"
                 ELSE "AICA_SM_8BIT",
         blocks |-> <<[size |-> len, base |-> 0, step |-> 2]>>]

\* Lines 211-236, stereo PCM: the odd words go to sepbuf, the even words
\* to the front of tmp, and len / 2 bytes of each are loaded.
StereoPcmPlan(fmtName, hz, len) ==
    [ok |-> TRUE, len |-> U32Half(U32Half(len)), rate |-> hz % 65536,
     stereo |-> TRUE, fmt |-> fmtName,
     blocks |-> <<[size |-> U32Half(len), base |-> 0, step |-> 4],
                  [size |-> U32Half(len), base |-> 2, step |-> 4]>>]

\* Lines 246-260, stereo ADPCM: the first half of the data is the left
\* channel, the second half the right one.
StereoAdpcmPlan(fmtName, hz, len) ==
    [ok |-> TRUE, len |-> len, rate |-> hz % 65536,
     stereo |-> TRUE, fmt |-> fmtName,
     blocks |-> <<[size |-> U32Half(len), base |-> 0, step |-> 2],
                  [size |-> U32Half(len), base |-> U32Half(len),
                   step |-> 2]>>]

\* Lines 168-267 of snd_sfx_load, the header read.
LoadPlan(h) ==
    LET blockAlign == BlockAlignRead(h)
    IN  IF h.channels = 1
        THEN MonoPlan(h.len, h.fmt, h.hz, blockAlign, h.len)
        ELSE IF h.channels = 2 /\ h.fmt = 1
        THEN IF blockAlign < 2 THEN Refused
             ELSE StereoPcmPlan("AICA_SM_16BIT", h.hz, h.len)
        ELSE IF h.channels = 2 /\ h.fmt = 20
        THEN StereoAdpcmPlan("AICA_SM_ADPCM", h.hz, h.len)
        ELSE Refused

\* Lines 366-476 of snd_sfx_loadEx: the same, but the mono branch never
\* stores len in t->len, which the memset of line 366 left at 0.
LoadExPlan(h) ==
    LET blockAlign == BlockAlignRead(h)
    IN  IF h.channels = 1
        THEN MonoPlan(0, h.fmt, h.hz, blockAlign, h.len)
        ELSE IF h.channels = 2 /\ h.fmt = 1
        THEN IF blockAlign < 2 THEN Refused
             ELSE StereoPcmPlan("AICA_SM_16BIT", h.hz, h.len)
        ELSE IF h.channels = 2 /\ h.fmt = 20
        THEN StereoAdpcmPlan("AICA_SM_ADPCM", h.hz, h.len)
        ELSE Refused

\* The calls of snd_sfx_load_mem with a buffer: format, freq, chan, len.
Formats == {"AICA_SM_16BIT", "AICA_SM_8BIT", "AICA_SM_ADPCM"}

MemCalls ==
    [format : Formats, freq : {44100}, chan : {0, 1, 2}, len : {0, 8}]
        \cup {[format |-> "AICA_SM_8BIT", freq |-> 44100, chan |-> 0,
                len |-> 70000]}

\* Lines 507-595 of snd_sfx_load_mem.
LoadMemPlan(a) ==
    IF a.chan = 0
    THEN LET halved == IF a.format # "AICA_SM_8BIT" THEN U32Half(a.len)
                       ELSE a.len
         IN  [ok |-> TRUE,
              len |-> IF a.format = "AICA_SM_ADPCM" THEN U32Times4(halved)
                      ELSE halved,
              rate |-> a.freq, stereo |-> FALSE, fmt |-> a.format,
              blocks |-> <<[size |-> a.len, base |-> 0, step |-> 2]>>]
    ELSE IF a.chan = 1 /\ a.format = "AICA_SM_16BIT"
    THEN StereoPcmPlan(a.format, a.freq, a.len)
    ELSE IF a.chan = 1 /\ a.format = "AICA_SM_ADPCM"
    THEN StereoAdpcmPlan(a.format, a.freq, a.len)
    ELSE Refused

\* spu_memload(block, src, size): the block as loaded, its first bytes kept.
Loaded(b) ==
    [size |-> b.size,
     head |-> [k \in 1..(IF b.size < Shown THEN b.size ELSE Shown) |->
                  DataByte(b.base + ((k - 1) \div 2) * b.step + ((k - 1) % 2))],
     frees |-> 0]

\* snd_mem_malloc(size) and the spu_memload that follows it when it did not
\* return 0: the address returned and the sound RAM after them.  Sound RAM
\* may have no room (room = FALSE), and never has 2^31 bytes.
MallocAndLoad(mem, b, room) ==
    IF room /\ b.size >= 0
    THEN [addr |-> Len(mem) + 1, mem |-> Append(mem, Loaded(b))]
    ELSE [addr |-> 0, mem |-> mem]

NoEffect == <<>>

FxInit ==
    /\ snd_effects = <<>>
    /\ snd_mem = <<>>
    /\ e_made = 0
    /\ e_live = {}
    /\ e_last = NoCall

FxIdle ==
    /\ snd_effects = <<>> /\ snd_mem = <<>> /\ e_made = 0 /\ e_live = {}
    /\ e_last = [op |-> "off"]

\* A loader returns SFXHND_INVALID having touched neither the list nor the
\* sound RAM.  e_last keeps the call, what it returned, the snd_effect_t
\* it filled, what its snd_mem_malloc calls returned, and the list and the
\* sound RAM as they were before it.
Refuse(op, arg) ==
    /\ e_last' = [op |-> op, arg |-> arg, ret |-> SFXHND_INVALID,
                  t |-> NoEffect, got |-> <<>>,
                  list0 |-> snd_effects, mem0 |-> snd_mem]
    /\ UNCHANGED <<snd_effects, snd_mem, e_made, e_live>>

\* The end of a loader: the snd_mem_malloc calls, each followed by
\* spu_memload if it returned a block (lines 180-183, 227-234, 251-258),
\* then LIST_INSERT_HEAD and the return of the handle (lines 272-275).
\* room[k] tells whether sound RAM has room at the k-th snd_mem_malloc.
Register(op, arg, plan, room) ==
    LET hnd == e_made + 1
        l == MallocAndLoad(snd_mem, plan.blocks[1], room[1])
        r == IF plan.stereo
             THEN MallocAndLoad(l.mem, plan.blocks[2], room[2])
             ELSE [addr |-> 0, mem |-> l.mem]
        t == [hnd |-> hnd, locl |-> l.addr, locr |-> r.addr,
              len |-> plan.len, rate |-> plan.rate,
              stereo |-> plan.stereo, fmt |-> plan.fmt]
    IN  /\ snd_mem' = r.mem
        /\ snd_effects' = <<t>> \o snd_effects
        /\ e_made' = hnd
        /\ e_live' = e_live \cup {hnd}
        /\ e_last' = [op |-> op, arg |-> arg, ret |-> hnd, t |-> t,
                      got |-> IF plan.stereo THEN <<l.addr, r.addr>>
                              ELSE <<l.addr>>,
                      list0 |-> snd_effects, mem0 |-> snd_mem]

\* What the snd_mem_malloc calls of a loader can meet: one call for a mono
\* effect, two for a stereo one.
Rooms(plan) ==
    IF plan.stereo THEN [1..2 -> BOOLEAN] ELSE [1..1 -> BOOLEAN]

Finish(op, arg, plan) ==
    IF plan.ok THEN \E room \in Rooms(plan) : Register(op, arg, plan, room)
    ELSE Refuse(op, arg)

\* snd_sfx_load, lines 106-276, in the calls in which the file was mapped
\* or malloc gave the buffers asked for: the function does not test what
\* malloc returns.  The file does not open, or it is one of WavFiles.
E_Load ==
    /\ e_made < MaxLoads
    /\ \/ Refuse("load", NoFile)
       \/ \E h \in WavFiles :
             IF h.magic # "WAVE" THEN Refuse("load", h)
             ELSE Finish("load", h, LoadPlan(h))
    /\ FxFrame

\* snd_sfx_loadEx, lines 279-485.  The reader is NULL or does not open the
\* file; or malloc returns NULL for tmp (line 335, always so for 2^31
\* bytes) or for t (line 359); or, for a stereo file, for sepbuf or buf2
\* (lines 413, 449); or the function comes to its end.
E_LoadEx ==
    /\ e_made < MaxLoads
    /\ \/ Refuse("loadEx", NoFile)
       \/ \E h \in WavFiles :
             IF h.magic # "WAVE" THEN Refuse("loadEx", h)
             ELSE \/ Refuse("loadEx", h)
                  \/ /\ h.len >= 0
                     /\ Finish("loadEx", h, LoadExPlan(h))
    /\ FxFrame

\* snd_sfx_load_mem, lines 488-601.  pSample is NULL or len is 0; or
\* malloc returns NULL for t (line 500) or, for a stereo sample, for
\* sepbuf or buf2 (lines 536, 570); or the function comes to its end.
E_LoadMem ==
    /\ e_made < MaxLoads
    /\ \E a \in MemCalls :
          \/ Refuse("load_mem", a)
          \/ /\ a.len # 0
             /\ Finish("load_mem", a, LoadMemPlan(a))
    /\ FxFrame

\* The snd_effect_t a live handle points to.
EffectAt(hnd) ==
    LET k == CHOOSE k \in 1..Len(snd_effects) : snd_effects[k].hnd = hnd
    IN  snd_effects[k]

\* snd_mem_free(addr): the block at addr is freed once more.  No block is
\* at 0, the address of a channel that snd_mem_malloc never granted.
MemFree(mem, addr) ==
    IF addr = 0 THEN mem ELSE [mem EXCEPT ![addr].frees = @ + 1]

FreeBlocks_leftonly(mem, t) == MemFree(mem, t.locl)

\* Lines 83-86, and lines 61-64 which are the same.
FreeBlocks(mem, t) ==
    IF t.stereo THEN MemFree(MemFree(mem, t.locl), t.locr)
    ELSE MemFree(mem, t.locl)

\* LIST_REMOVE(t, list), line 88.
ListRemove(list, hnd) == SelectSeq(list, LAMBDA t : t.hnd # hnd)

\* snd_sfx_unload, lines 75-90, with SFXHND_INVALID or with a handle a
\* loader returned and no unload has been given yet.
E_Unload ==
    /\ e_last.op # "off"
    /\ \E idx \in e_live \cup {SFXHND_INVALID} :
          IF idx = SFXHND_INVALID
          THEN /\ e_last' = [op |-> "unload", arg |-> idx, t |-> NoEffect,
                             list0 |-> snd_effects, mem0 |-> snd_mem]
               /\ UNCHANGED <<snd_effects, snd_mem, e_live>>
          ELSE LET t == EffectAt(idx)
               IN  /\ snd_mem' = FreeBlocks(snd_mem, t)
                   /\ snd_effects' = ListRemove(snd_effects, idx)
                   /\ e_live' = e_live \ {idx}
                   /\ e_last' = [op |-> "unload", arg |-> idx, t |-> t,
                                 list0 |-> snd_effects, mem0 |-> snd_mem]
    /\ UNCHANGED e_made
    /\ FxFrame

\* Lines 56-69: the walk of snd_sfx_unload_all from t on.
RECURSIVE FreeAll(_, _)
FreeAll(mem, list) ==
    IF list = <<>> THEN mem
    ELSE FreeAll(FreeBlocks(mem, Head(list)), Tail(list))

\* snd_sfx_unload_all, lines 53-72.
E_UnloadAll ==
    /\ e_last.op # "off"
    /\ snd_mem' = FreeAll(snd_mem, snd_effects)
    /\ snd_effects' = <<>>
    /\ e_live' = {}
    /\ e_last' = [op |-> "unload_all", list0 |-> snd_effects,
                  mem0 |-> snd_mem]
    /\ UNCHANGED e_made
    /\ FxFrame

\* The channels, volumes and pans the calls below are made with.
PlayChans == {0, 62}
Vols == {255}
Pans == {64, 128}

\* Lines 663-665: int size = t->len keeps the 32 bits of the uint32.
PlaySize(len) == IF len >= 65535 THEN 65534 ELSE len

\* What the SH4 gives the AICA, in order: a command (snd_sh4_to_aica), a
\* stop of the queue (snd_sh4_to_aica_stop) or a start of it
\* (snd_sh4_to_aica_start).  Lines 667-679: the start command.
StartCmd(chn, t, base, vol, pan) ==
    [ev |-> "cmd", cmd_id |-> chn, cmd |-> "AICA_CH_CMD_START",
     base |-> base, type |-> t.fmt, length |-> PlaySize(t.len),
     loop |-> 0, loopstart |-> 0, loopend |-> PlaySize(t.len),
     freq |-> t.rate, vol |-> vol, pan |-> pan]

QueueStop == [ev |-> "stop"]
QueueStart == [ev |-> "start"]

\* Lines 681-696.
PlayChnQueue(chn, t, vol, pan) ==
    IF ~t.stereo THEN <<StartCmd(chn, t, t.locl, vol, pan)>>
    ELSE <<QueueStop,
           StartCmd(chn, t, t.locl, vol, 0),
           StartCmd(chn + 1, t, t.locr, vol, 255),
           QueueStart>>

\* snd_sfx_play_chn, lines 658-699, with a live handle.
E_PlayChn ==
    /\ e_live # {}
    /\ \E idx \in e_live, chn \in PlayChans, vol \in Vols, pan \in Pans :
          LET t == EffectAt(idx)
          IN  e_last' = [op |-> "play_chn", chn |-> chn, arg |-> idx,
                         t |-> t, vol |-> vol, pan |-> pan, ret |-> chn,
                         queue |-> PlayChnQueue(chn, t, vol, pan)]
    /\ UNCHANGED <<snd_effects, snd_mem, e_made, e_live>>
    /\ FxFrame

\* In snd_sfx_update_volume and snd_sfx_update_frequency chan is not the
\* parameter channel but the aica_channel_t * that AICA_CMDSTR_CHANNEL
\* declares, pointing into tmp on the stack (chan->vol, line 740).  Line
\* 744 stores chan + 1, an address, in cmd_id: 0x8C010020 and 0x8CFFFF00
\* stand for the addresses a stack in main RAM gives.
ChanPlusOne == {-1946091488, -1929380096}

\* Lines 735-746 and 754-765: the update command for channel, and for a
\* stereo effect the same command again with cmd_id = chan + 1.
UpdateQueue(what, field, channel, t, val, ptr) ==
    LET c == [ev |-> "cmd", cmd_id |-> channel, cmd |-> what,
              field |-> field, val |-> val]
    IN  IF t.stereo THEN <<c, [c EXCEPT !.cmd_id = ptr]>> ELSE <<c>>

\* snd_sfx_update_volume, lines 730-747, with a live handle.
E_UpdateVolume ==
    /\ e_live # {}
    /\ \E idx \in e_live, channel \in PlayChans, vol \in Vols,
          ptr \in ChanPlusOne :
          LET t == EffectAt(idx)
          IN  e_last' = [op |-> "update_volume", channel |-> channel,
                         arg |-> idx, t |-> t,
                         queue |-> UpdateQueue("AICA_CH_UPDATE_SET_VOL",
                                               "vol", channel, t, vol, ptr)]
    /\ UNCHANGED <<snd_effects, snd_mem, e_made, e_live>>
    /\ FxFrame

\* snd_sfx_update_frequency, lines 749-766, with a live handle.
E_UpdateFrequency ==
    /\ e_live # {}
    /\ \E idx \in e_live, channel \in PlayChans, freq \in {11025},
          ptr \in ChanPlusOne :
          LET t == EffectAt(idx)
          IN  e_last' = [op |-> "update_frequency", channel |-> channel,
                         arg |-> idx, t |-> t,
                         queue |-> UpdateQueue("AICA_CH_UPDATE_SET_FREQ",
                                               "freq", channel, t, freq,
                                               ptr)]
    /\ UNCHANGED <<snd_effects, snd_mem, e_made, e_live>>
    /\ FxFrame

RegistryNext ==
    \/ E_Load
    \/ E_LoadEx
    \/ E_LoadMem
    \/ E_Unload
    \/ E_UnloadAll

FxNext ==
    \/ RegistryNext
    \/ E_PlayChn
    \/ E_UpdateVolume
    \/ E_UpdateFrequency

(***************************************************************************)
(* The specifications.                                                     *)
(***************************************************************************)
InitCodec ==
    StereoIdle /\ W2aIdle /\ A2wIdle /\ SfxIdle /\ FxIdle /\ CodecInit

SpecCodec == InitCodec /\ [][CodecNext]_vars

InitStereo ==
    CodecIdle /\ W2aIdle /\ A2wIdle /\ SfxIdle /\ FxIdle /\ StereoInit

SpecStereo == InitStereo /\ [][StereoNext]_vars

Init == CodecIdle /\ StereoIdle /\ A2wIdle /\ SfxIdle /\ FxIdle /\ W2aInit

Next == W2aNext

Spec == Init /\ [][Next]_vars

InitDecode ==
    CodecIdle /\ StereoIdle /\ W2aIdle /\ SfxIdle /\ FxIdle /\ A2wInit

SpecDecode == InitDecode /\ [][A2wNext]_vars

SpecRoundTrip == Init /\ [][RoundTripNext]_vars

InitSfx ==
    CodecIdle /\ StereoIdle /\ W2aIdle /\ A2wIdle /\ FxIdle /\ SfxInit

SpecSfx == InitSfx /\ [][SfxNext]_vars

InitEffects ==
    CodecIdle /\ StereoIdle /\ W2aIdle /\ A2wIdle /\ SfxIdle /\ FxInit

SpecRegistry == InitEffects /\ [][RegistryNext]_vars

SpecEffects == InitEffects /\ [][FxNext]_vars

(***************************************************************************)
(* Claims about the codec core (checked under SpecCodec).                  *)
(***************************************************************************)
\* The state a call is in before its k-th sample / nibble, given its trace.
Before(trace, k) == IF k = 1 THEN InitState ELSE trace[k - 1]

\* The k-th nibble of the bytes, in the order low, high, low, high, ...
NibbleAt(bytes, k) ==
    IF k % 2 = 1 THEN bytes[(k + 1) \div 2] % 16
                 ELSE (bytes[k \div 2] \div 16) % 16

\* C1: when adpcm2pcm decodes the bytes pcm2adpcm produced, the k-th
\* decoded sample equals the encoder's signal right after it encoded
\* sample k, and the decoder's step equals the encoder's step after every
\* sample.
C1_EncodeDecodeDual ==
    c_encTrace # <<>> =>
        \A k \in 1..Len(c_pcm) :
            /\ c_pcm[k] = c_encTrace[k].signal
            /\ c_decTrace[k].signal = c_encTrace[k].signal
            /\ c_decTrace[k].step = c_encTrace[k].step

\* A finished round trip of at least four samples with negative updates
\* (where truncation and flooring differ) and a step that left its minimum.
C1_Witness ==
    /\ c_pc = "done" /\ c_encTrace # <<>> /\ Len(c_pcm) >= 4
    /\ Len(c_pcm) = Len(c_src)
    /\ \E k \in 1..Len(c_pcm) : NibbleAt(c_adpcm, k) >= 8
    /\ \E k \in 1..Len(c_pcm) : c_decTrace[k].step > 127

\* C2: after every nibble processed by pcm2adpcm or adpcm2pcm, step is in
\* [127, 24576] and signal is in [-32768, 32767], and so is every sample
\* adpcm2pcm emits.
InRange(st) ==
    /\ st.step >= 127 /\ st.step <= 24576
    /\ st.signal >= -32768 /\ st.signal <= 32767

C2_Clamped ==
    /\ InRange(c_state)
    /\ \A k \in 1..Len(c_encTrace) : InRange(c_encTrace[k])
    /\ \A k \in 1..Len(c_decTrace) : InRange(c_decTrace[k])
    /\ \A k \in 1..Len(c_pcm) : c_pcm[k] >= -32768 /\ c_pcm[k] <= 32767

\* The sum the code clamps into signal at nibble k of a decoder run.
RawSignal(k) ==
    LET p == Before(c_decTrace, k)
    IN  p.signal + CDiv(p.step * diff_lookup[NibbleAt(c_adpcm, k) + 1], 8)

RawStep(k) ==
    LET p == Before(c_decTrace, k)
    IN  (p.step * index_scale[(NibbleAt(c_adpcm, k) % 8) + 1]) \div 256

\* A decoder run in which the signal was cut at the top of its range, and
\* the step at both ends of its range.
C2_Witness ==
    /\ c_pc = "done"
    /\ \E k \in 1..Len(c_decTrace) :
          RawSignal(k) > 32767 /\ c_decTrace[k].signal = 32767
    /\ \E k \in 1..Len(c_decTrace) :
          RawStep(k) > 24576 /\ c_decTrace[k].step = 24576
    /\ \E k \in 1..Len(c_decTrace) :
          RawStep(k) < 127 /\ c_decTrace[k].step = 127

C9_StereoSymmetry ==
    (s_size % 4 = 0 /\ Len(s_orig) = s_size \div 2) =>
        /\ s_pc \in {"interleave", "done"} =>
              \A i \in 1..(Len(s_orig) \div 2) :
                  /\ s_mid[i] = s_orig[2 * i - 1]
                  /\ s_mid[Len(s_orig) \div 2 + i] = s_orig[2 * i]
        /\ s_pc = "done" => s_buf = s_orig

\* A finished round trip on at least four samples that deinterleave
\* really reordered.
C9_Witness ==
    /\ s_pc = "done" /\ s_size % 4 = 0 /\ Len(s_orig) >= 4
    /\ s_mid # s_orig
    /\ s_orig[1] # s_orig[2] /\ s_orig[2] # s_orig[3]

(***************************************************************************)
(* Claims about wav2adpcm (checked under Spec).                            *)
(***************************************************************************)
IsFmt(i) == walk[i].id = "fmt "
IsData(i) == walk[i].id = "data"
IsSmpl(i) == walk[i].id = "smpl"

\* C4: a well-formed 16-bit mono PCM WAV made of the RIFF/WAVE header, one
\* fmt chunk and one data chunk, with no smpl chunk, is converted: the
\* call returns 0 and the output holds the 44-byte header and the encoded
\* payload, with no loop chunk.
PlainMonoWav ==
    /\ wavhdr.hdr1 = "RIFF"
    /\ Len(walk) = 3
    /\ IsFmt(1) /\ walk[1].format = 1 /\ walk[1].channels = 1
    /\ walk[1].blocksize = 2
    /\ IsData(2) /\ walk[2].full /\ walk[2].len > 0 /\ walk[2].len % 4 = 0
    /\ walk[3] = EndOfFile

C4_PlainWavConverts ==
    (w_pc = "done" /\ PlainMonoWav) =>
        /\ w_ret = 0
        /\ outfile.exists
        /\ outfile.hdr.datasize = Len(outfile.payload)
        /\ outfile.payload = Pcm2Adpcm(w_data)
        /\ outfile.tail = <<>>

\* C5: for every 2-channel input wav2adpcm accepts, the payload is the
\* left channel's encoded bytes immediately followed by the right
\* channel's, each channel being the de-interleaved samples encoded on
\* their own from a fresh state: each pcm2adpcm call reads its channel's
\* samples and nothing else, and no byte of one is overwritten by the
\* other.
Evens(seq) == [i \in 1..((Len(seq) + 1) \div 2) |-> seq[2 * i - 1]]

Odds(seq) == [i \in 1..(Len(seq) \div 2) |-> seq[2 * i]]

C5_StereoPacking ==
    (w_ret = 0 /\ wavhdr.channels = 2) =>
        /\ Len(w_calls) = 2
        /\ w_calls[1].src = Evens(w_data)
        /\ w_calls[2].src = Odds(w_data)
        /\ outfile.payload
              = Pcm2Adpcm(Evens(w_data)) \o Pcm2Adpcm(Odds(w_data))

\* C6: for every input wav2adpcm accepts, the data size recorded in the
\* output header and the number of payload bytes written equal the number
\* of bytes the pcm2adpcm calls produced: the sum of ceil(L / 4) over the
\* lengths L passed.
RECURSIVE Produced(_)
Produced(calls) ==
    IF calls = <<>> THEN 0
    ELSE Pcm2AdpcmCount(Head(calls).length) + Produced(Tail(calls))

C6_PackingInvariant ==
    w_ret = 0 =>
        /\ outfile.hdr.datasize = Produced(w_calls)
        /\ Len(outfile.payload) = Produced(w_calls)

\* C7: wav2adpcm returns failure and never creates or opens the output
\* file whenever the chunk walk meets a fmt chunk whose format tag is not
\* 1 or whose channel count is not 1 or 2, a second fmt chunk, a data
\* chunk before any fmt chunk, a data chunk when block alignment is not 2,
\* or the end of the file while reading a chunk id and length.
WalkMeetsBad(i) ==
    \/ IsFmt(i) /\ (walk[i].format # 1 \/ ~(walk[i].channels \in {1, 2}))
    \/ IsFmt(i) /\ \E j \in 1..(i - 1) : IsFmt(j)
    \/ IsData(i) /\ ~(\E j \in 1..(i - 1) : IsFmt(j))
    \/ IsData(i) /\ \E j \in 1..(i - 1) : IsFmt(j) /\ walk[j].blocksize # 2
    \/ walk[i] = EndOfFile

C7_WalkRejects ==
    (\E i \in 1..Len(walk) : WalkMeetsBad(i)) =>
        /\ w_pc = "done"
        /\ w_ret = -1
        /\ outfile = NoFile
        /\ ~w_res.out_open

\* A valid fmt chunk followed by a second one.
C7_Witness ==
    /\ w_pc = "done" /\ w_ret = -1 /\ Len(walk) = 2
    /\ IsFmt(1) /\ IsFmt(2)
    /\ walk[2].format = 1 /\ walk[2].channels = 1

\* C10: on a successful conversion the output ends with a smpl chunk
\* (length 0x3C, reserved words zero, carrying loop type, loop start and
\* loop end) if and only if the input contained a smpl chunk with loop
\* type 0 and a nonzero loop end; otherwise nothing follows the payload.
InputLoops ==
    \E i \in 1..Len(walk) :
        IsSmpl(i) /\ walk[i].loopType = 0 /\ walk[i].endLoop # 0

C10_LoopChunk ==
    w_ret = 0 =>
        /\ (outfile.tail # <<>>) <=> InputLoops
        /\ outfile.tail # <<>> =>
              LET t == outfile.tail[1]
                  c == walk[Len(walk)]
              IN  /\ Len(outfile.tail) = 1
                  /\ t.id = "smpl" /\ t.len = 60 /\ Len(t.words) = 15
                  /\ \A k \in (1..10) \cup {14, 15} : t.words[k] = 0
                  /\ t.words[11] = c.loopType
                  /\ t.words[12] = IF c.startLoop > w.nSampleLength
                                    THEN 0 ELSE c.startLoop
                  /\ t.words[13] = IF c.endLoop > w.nSampleLength
                                    THEN w.nSampleLength ELSE c.endLoop

\* A successful conversion that wrote a loop chunk, its loop end cut to
\* the sample count.
C10_Witness ==
    /\ w_ret = 0 /\ outfile.tail # <<>>
    /\ walk[Len(walk)].endLoop > w.nSampleLength
    /\ outfile.tail[1].words[13] = w.nSampleLength

\* C11: whatever loop start and loop end the smpl chunk declares and
\* wherever it sits relative to the data chunk, the loop end wav2adpcm
\* keeps, and writes, never exceeds the number of 16-bit samples of the
\* file's data payload, and a loop start exceeding that number is replaced
\* by 0.
DataLens(chunks) ==
    {chunks[i].len : i \in {j \in 1..Len(chunks) : chunks[j].id = "data"}}

\* The samples of the data payload: of the chunk loaded, or else of the
\* one the walk never came to.
FileSamples ==
    IF DataLens(walk) # {} THEN w.nSampleLength
    ELSE IF DataLens(w_rest) # {}
    THEN (CHOOSE n \in DataLens(w_rest) : TRUE) \div 2
    ELSE 0

C11_LoopClamped ==
    (walk # <<>> /\ IsSmpl(Len(walk))) =>
        LET c == walk[Len(walk)]
        IN  /\ w.endLoop <= FileSamples
            /\ c.startLoop > FileSamples => w.startLoop = 0
            /\ (outfile.exists /\ outfile.tail # <<>>) =>
                  /\ outfile.tail[1].words[13] <= FileSamples
                  /\ c.startLoop > FileSamples =>
                        outfile.tail[1].words[12] = 0

\* A written loop chunk whose declared start and end both lay past the
\* samples.
C11_Witness ==
    /\ w_ret = 0 /\ outfile.tail # <<>>
    /\ walk[Len(walk)].startLoop > FileSamples
    /\ walk[Len(walk)].endLoop > FileSamples
    /\ outfile.tail[1].words[12] = 0
    /\ outfile.tail[1].words[13] = FileSamples

\* C12: on every return path of wav2adpcm (success and each failure),
\* every file handle the call opened has been closed and every buffer it
\* allocated has been released.
C12_ResourcesReleased ==
    (w_pc = "done" /\ w_ret \in {0, -1}) =>
        /\ ~w_res.in_open
        /\ ~w_res.out_open
        /\ w_res.live = 0

\* C16: for every input that passes the validation of wav2adpcm (any data
\* size, mono or stereo), the pcm2adpcm calls terminate, every byte they
\* write lies inside adpcmbuf and every sample they read lies inside
\* pcmbuf, data sizes that are not a multiple of 4 or 8 and per-channel
\* lengths of 0 included.
Validated ==
    /\ walk # <<>> /\ IsSmpl(Len(walk))
    /\ w.have_fmt /\ pcmbuf.addr # 0

C16_CodecMemorySafe ==
    (Validated /\ w_pc \in {"write", "done"}) =>
        /\ w_ret # Crashed
        /\ \A i \in 1..Len(w_calls) :
              /\ 2 * (w_calls[i].from + Len(w_calls[i].src)) <= w.pcmsize
              /\ w_calls[i].off + Len(w_calls[i].dst) <= w.adpcmsize

\* C17: wav2adpcm reaches the encode step, where it reads the channel
\* count to choose mono or stereo, only after it has read both a valid fmt
\* chunk and a data chunk whose payload was loaded, for every order of the
\* chunks, a smpl chunk before data or before fmt included.
C17_EncodeAfterFmtAndData ==
    w_pc = "encode" =>
        /\ w.have_fmt
        /\ \E i \in 1..Len(walk) : IsData(i) /\ walk[i].full
        /\ pcmbuf.addr # 0

\* The bytes of the file wav2adpcm wrote: the header, the payload, and for
\* each chunk after it the id, the length word and the words of its body.
FileLength(f) ==
    WavHdrSize + Len(f.payload)
        + (IF f.tail = <<>> THEN 0 ELSE 4 + 4 + 4 * Len(f.tail[1].words))

\* C28: in every file wav2adpcm writes successfully, the RIFF total-size
\* field at offset 4 equals the length of the written file minus 8, whether
\* or not a loop chunk was appended after the payload.
C28_TotalSizeIsFileLength ==
    w_ret = 0 => outfile.hdr.totalsize = FileLength(outfile) - 8

(***************************************************************************)
(* Claims about the sound effect channels (checked under SpecSfx).         *)
(***************************************************************************)
\* A snd_sfx_play call of the main thread that returned, no other play
\* having run inside it.
PlayedAlone == sfx_last.op = "play" /\ sfx_last.irq = <<>>

\* The first channel, scanning cyclically upward from next, not in inuse.
FirstClear(inuse, next) ==
    LET k == CHOOSE k \in 0..(NumChans - 1) :
                 /\ ~((next + k) % NumChans \in inuse)
                 /\ \A j \in 0..(k - 1) : (next + j) % NumChans \in inuse
    IN  (next + k) % NumChans

\* C13: snd_sfx_play returns -1 and issues no command if and only if
\* every one of the 64 channels has its in-use bit set; otherwise it
\* starts the effect on the first channel, scanning cyclically upward from
\* sfx_nextchan, whose in-use bit is clear, returns that channel, and sets
\* sfx_nextchan to (that channel + 2) mod 64.
C13_PlayAllocates ==
    PlayedAlone =>
        /\ (sfx_last.ret = -1) <=> (sfx_last.inuse0 = AllBits)
        /\ sfx_last.ret = -1 => sfx_last.cmds = <<>>
        /\ sfx_last.inuse0 # AllBits =>
              /\ sfx_last.ret = FirstClear(sfx_last.inuse0, sfx_last.next0)
              /\ sfx_last.cmds # <<>>
              /\ sfx_last.cmds[1] = sfx_last.ret
              /\ sfx_last.next1 = (sfx_last.ret + 2) % NumChans

\* C14: when one snd_sfx_play call is interrupted at any point by another
\* snd_sfx_play call, no play finishing between them, the two calls never
\* return the same channel.
C14_NoSharedChannel ==
    (sfx_last.op = "play" /\ sfx_last.irq # <<>> /\ sfx_last.ret # -1) =>
        sfx_last.irq[1] # sfx_last.ret

\* C18: every channel id on which snd_sfx_play issues a start command, for
\* mono effects and for stereo effects (the chosen channel and the next
\* one), is in 0..63 and has its in-use bit clear at the time of the call,
\* so a channel reserved with snd_sfx_chn_alloc is never started.
C18_StartsOnlyFreeChannels ==
    PlayedAlone =>
        \A k \in 1..Len(sfx_last.cmds) :
            /\ sfx_last.cmds[k] \in AllBits
            /\ ~(sfx_last.cmds[k] \in sfx_last.inuse0)

\* C19: snd_sfx_chn_alloc returns the lowest-numbered channel in 0..63
\* that is not in use and marks it in use, and returns -1 only when all 64
\* channels are in use: from an empty mask 64 consecutive calls return the
\* 64 distinct channels and only the 65th returns -1.
C19_AllocLowestFree ==
    sfx_last.op = "alloc" =>
        /\ sfx_last.ret = -1 =>
              /\ sfx_last.inuse0 = AllBits
              /\ sfx_last.held0 = AllBits
        /\ sfx_last.ret # -1 =>
              /\ ~(sfx_last.ret \in sfx_last.inuse0)
              /\ \A c \in 0..(sfx_last.ret - 1) : c \in sfx_last.inuse0
              /\ sfx_inuse = sfx_last.inuse0 \cup {sfx_last.ret}

\* C20: snd_sfx_chn_free(c), for any c in 0..63, clears only channel c's
\* in-use bit and leaves every other channel's bit unchanged; hence after
\* any sequence of snd_sfx_chn_alloc and snd_sfx_chn_free calls a channel
\* is marked in use exactly when it was returned by an alloc and not freed
\* since.
C20_FreeClearsOneBit ==
    /\ sfx_last.op = "free" =>
          sfx_inuse = sfx_last.inuse0 \ {sfx_last.arg}
    /\ sfx_inuse = sfx_held

\* C24: snd_sfx_stop_all sends exactly one stop command to each channel in
\* 0..63 whose in-use bit is clear and no command to any channel whose
\* in-use bit is set, and it leaves the in-use mask and the next-channel
\* cursor unchanged.
C24_StopAllStopsClearChannels ==
    sfx_last.op = "stop_all" =>
        /\ \A c \in AllBits \ sfx_last.inuse0 :
              Cardinality({k \in 1..Len(sfx_last.cmds) :
                              sfx_last.cmds[k] = c}) = 1
        /\ \A k \in 1..Len(sfx_last.cmds) :
              sfx_last.cmds[k] \in AllBits \ sfx_last.inuse0
        /\ sfx_last.inuse1 = sfx_last.inuse0
        /\ sfx_last.next1 = sfx_last.next0

(***************************************************************************)
(* Claims about the effect list (checked under SpecRegistry) and about the *)
(* commands sent for an effect (checked under SpecEffects).                *)
(***************************************************************************)
\* The last call was a loader that opened a WAV file, or was given a
\* buffer, and went on to read it.
LoadedFile(op) ==
    /\ e_last.op = op
    /\ e_last.arg # NoFile
    /\ e_last.arg.magic = "WAVE"

\* C21: for a mono PCM WAV whose header declares block align 2 and 16 bits
\* per sample, snd_sfx_load records the sample as 16-bit (AICA_SM_16BIT)
\* with length = data bytes / 2; with block align 1 and 8 bits it records
\* 8-bit with length = data bytes; for mono ADPCM (format tag 20) it
\* records ADPCM with length = 2 x data bytes.
C21_MonoFormats ==
    (LoadedFile("load") /\ e_last.arg.channels = 1) =>
        LET h == e_last.arg
            t == e_last.t
        IN  /\ (h.fmt = 1 /\ h.blockalign = 2 /\ h.bits = 16) =>
                  /\ e_last.ret # SFXHND_INVALID
                  /\ t.fmt = "AICA_SM_16BIT"
                  /\ t.len = U32Half(h.len)
            /\ (h.fmt = 1 /\ h.blockalign = 1 /\ h.bits = 8) =>
                  /\ e_last.ret # SFXHND_INVALID
                  /\ t.fmt = "AICA_SM_8BIT"
                  /\ t.len = h.len
            /\ h.fmt = 20 =>
                  /\ e_last.ret # SFXHND_INVALID
                  /\ t.fmt = "AICA_SM_ADPCM"
                  /\ t.len = 2 * h.len

\* The effect t, registered by one loader, is the one the plan of the
\* other loader describes: length, rate, format, stereo flag, and the
\* bytes of each channel that got a block.
SameEffect(t, plan) ==
    /\ plan.ok
    /\ t.len = plan.len /\ t.rate = plan.rate
    /\ t.fmt = plan.fmt /\ t.stereo = plan.stereo
    /\ t.locl # 0 => snd_mem[t.locl].head = Loaded(plan.blocks[1]).head
    /\ (t.stereo /\ t.locr # 0) =>
          snd_mem[t.locr].head = Loaded(plan.blocks[2]).head

\* C22: snd_sfx_load and snd_sfx_loadEx are equivalent on the same file
\* contents: for every header they either both return SFXHND_INVALID or
\* both register an effect with the same length, rate, format and stereo
\* flag and load the same bytes per channel.
C22_LoadersEquivalent ==
    /\ LoadedFile("load") =>
          IF e_last.ret = SFXHND_INVALID THEN ~LoadExPlan(e_last.arg).ok
          ELSE SameEffect(e_last.t, LoadExPlan(e_last.arg))
    /\ (LoadedFile("loadEx") /\ e_last.ret # SFXHND_INVALID) =>
          SameEffect(e_last.t, LoadPlan(e_last.arg))

\* C23: snd_sfx_load, snd_sfx_loadEx and snd_sfx_load_mem return a valid
\* handle (and register the effect in the list) only if device memory was
\* obtained for every channel of the sample (left always, right too when
\* stereo); when snd_mem_malloc returns 0 for a channel they return
\* SFXHND_INVALID, register nothing and leave no device memory allocated.
C23_NoHandleWithoutMemory ==
    e_last.op \in {"load", "loadEx", "load_mem"} =>
        /\ e_last.ret # SFXHND_INVALID =>
              /\ e_last.t.locl # 0
              /\ e_last.t.stereo => e_last.t.locr # 0
        /\ (\E k \in 1..Len(e_last.got) : e_last.got[k] = 0) =>
              /\ e_last.ret = SFXHND_INVALID
              /\ snd_effects = e_last.list0
              /\ \A a \in (Len(e_last.mem0) + 1)..Len(snd_mem) :
                    snd_mem[a].frees = 1

\* The smaller of two uint32.
U32Min(a, b) == IF U32Less(a, b) THEN a ELSE b

\* C25: command ordering of snd_sfx_play_chn: for a mono effect exactly
\* one start command is queued, for channel chn with the caller's pan; for
\* a stereo effect exactly two start commands are queued, first channel
\* chn (left data, pan 0) then channel chn+1 (right data, pan 255), both
\* after the queue was stopped with snd_sh4_to_aica_stop and before it is
\* restarted with snd_sh4_to_aica_start; the length sent is
\* min(sample length, 65534).
C25_PlayChnOrdering ==
    e_last.op = "play_chn" =>
        LET t == e_last.t
            q == e_last.queue
            IsStart(c, chn, base, pan) ==
                /\ c.ev = "cmd" /\ c.cmd = "AICA_CH_CMD_START"
                /\ c.cmd_id = chn /\ c.base = base /\ c.pan = pan
                /\ c.length = U32Min(t.len, 65534)
        IN  IF ~t.stereo
            THEN /\ Len(q) = 1
                 /\ IsStart(q[1], e_last.chn, t.locl, e_last.pan)
            ELSE /\ Len(q) = 4
                 /\ q[1] = QueueStop
                 /\ IsStart(q[2], e_last.chn, t.locl, 0)
                 /\ IsStart(q[3], e_last.chn + 1, t.locr, 255)
                 /\ q[4] = QueueStart

\* C26: snd_sfx_update_volume and snd_sfx_update_frequency called with
\* channel c send the update command to channel c only when the effect is
\* mono, and to channels c and c+1 (and no other channel id) when the
\* effect is stereo.
C26_UpdateChannels ==
    e_last.op \in {"update_volume", "update_frequency"} =>
        LET q == e_last.queue
            ids == [k \in 1..Len(q) |-> q[k].cmd_id]
        IN  ids = IF e_last.t.stereo
                  THEN <<e_last.channel, e_last.channel + 1>>
                  ELSE <<e_last.channel>>

\* The handles of the effects of a list, and the sound RAM blocks an
\* effect holds.
Handles(list) == {list[k].hnd : k \in 1..Len(list)}

Holds(t) == ({t.locl} \cup (IF t.stereo THEN {t.locr} ELSE {})) \ {0}

\* C27: registry invariant: after any sequence of successful loads and of
\* snd_sfx_unload calls on live handles, the effect list holds exactly the
\* handles loaded and not yet unloaded; snd_sfx_unload(h) frees h's left
\* block (and right block only if stereo) and removes only h;
\* snd_sfx_unload(SFXHND_INVALID) changes nothing; after
\* snd_sfx_unload_all the list is empty and every device-memory block
\* obtained by a load has been freed exactly once.
C27_RegistryInvariant ==
    /\ Handles(snd_effects) = e_live
    /\ Cardinality(e_live) = Len(snd_effects)
    /\ \A a \in 1..Len(snd_mem) : snd_mem[a].frees <= 1
    /\ (e_last.op = "unload" /\ e_last.arg # SFXHND_INVALID) =>
          /\ \E i \in 1..Len(e_last.list0) :
                /\ e_last.list0[i].hnd = e_last.arg
                /\ snd_effects = SubSeq(e_last.list0, 1, i - 1)
                                   \o SubSeq(e_last.list0, i + 1,
                                             Len(e_last.list0))
          /\ Len(snd_mem) = Len(e_last.mem0)
          /\ \A a \in 1..Len(snd_mem) :
                snd_mem[a].frees =
                    e_last.mem0[a].frees
                        + (IF a \in Holds(e_last.t) THEN 1 ELSE 0)
    /\ (e_last.op = "unload" /\ e_last.arg = SFXHND_INVALID) =>
          /\ snd_effects = e_last.list0
          /\ snd_mem = e_last.mem0
    /\ e_last.op = "unload_all" =>
          /\ snd_effects = <<>>
          /\ \A a \in 1..Len(snd_mem) : snd_mem[a].frees = 1

\* The unload of a stereo effect holding two blocks, another effect being
\* in the list: both blocks are freed and the other effect stays.
C27_Witness ==
    /\ e_last.op = "unload" /\ e_last.arg # SFXHND_INVALID
    /\ e_last.t.stereo /\ e_last.t.locl # 0 /\ e_last.t.locr # 0
    /\ Len(e_last.list0) = 2 /\ Len(snd_effects) = 1
    /\ snd_mem[e_last.t.locl].frees = 1
    /\ snd_mem[e_last.t.locr].frees = 1
    /\ \E a \in 1..Len(snd_mem) : snd_mem[a].frees = 0

(***************************************************************************)
(* Claims about adpcm2wav (checked under SpecDecode).                      *)
(***************************************************************************)
\* C15 (checked under SpecRoundTrip): every file that wav2adpcm writes
\* successfully, with or without a trailing loop chunk, is accepted by
\* adpcm2wav, whose output is a PCM file with format tag 1, 16 bits, the
\* same channel count and sample rate, block align = 2 x channels, byte
\* rate = rate x block align, and data size = 4 x the ADPCM data size.
C15_RoundTrip ==
    (w_ret = 0 /\ d_pc = "done") =>
        /\ d_ret = 0
        /\ d_out.exists
        /\ d_out.hdr.format = 1 /\ d_out.hdr.bits = 16
        /\ d_out.hdr.channels = outfile.hdr.channels
        /\ d_out.hdr.freq = outfile.hdr.freq
        /\ d_out.hdr.blocksize = 2 * outfile.hdr.channels
        /\ d_out.hdr.byte_per_sec = outfile.hdr.freq * d_out.hdr.blocksize
        /\ d_out.hdr.datasize = 4 * outfile.hdr.datasize
        /\ Len(d_out.payload) = 2 * Len(outfile.payload)

\* C8: adpcm2wav proceeds to decode only if the header has "RIFF" at
\* offset 0, "WAVEfmt " at offset 8, "data" at offset 36, fmt chunk size
\* 16, format tag 20, channel count 1 or 2 and bits-per-sample 4; if any
\* one of these fails it returns failure without opening the output file.
HeaderOk(h) ==
    /\ h.hdr1 = "RIFF" /\ h.hdr2 = "WAVEfmt " /\ h.hdr3 = "data"
    /\ h.hdrsize = 16 /\ h.format = 20 /\ h.channels \in {1, 2}
    /\ h.bits = 4

C8_HeaderValidated ==
    /\ (d_pc \in {"data", "decode", "write"} \/ d_ret \in {0, Crashed}
            \/ d_out # NoFile \/ d_adpcmbuf # NULL) =>
          (d_inhdr # <<>> /\ HeaderOk(d_inhdr[1]))
    /\ (d_inhdr # <<>> /\ ~HeaderOk(d_inhdr[1])) =>
          /\ d_pc = "done" /\ d_ret = -1
          /\ d_out = NoFile /\ ~d_res.out_open

\* A header right in everything but its bits-per-sample, rejected.
C8_Witness ==
    /\ d_pc = "done" /\ d_ret = -1 /\ d_inhdr # <<>>
    /\ d_inhdr[1].bits # 4
    /\ HeaderOk([d_inhdr[1] EXCEPT !.bits = 4])

====
